---------------------------- MODULE Spec2Model ----------------------------
(***************************************************************************)
(* A model of shopware_bmecat: the BMEcat record extractor (bmecat.py),    *)
(* the payload builder, batch uploader and import orchestrator             *)
(* (importer.py) and the remote client they call (shopware.py).            *)
(*                                                                         *)
(* Numbers.  Python floats are modelled in fixed point: money in cents     *)
(* (value * 100) and tax rates in thousandths (value * 1000), so 0.19 is   *)
(* 190 and 19 percent is 19000.  The product net * (1 + rate) is computed  *)
(* exactly; where it lands exactly on a half cent the binary float may lie *)
(* on either side, so round() may return either neighbour there (`half').  *)
(*                                                                         *)
(* Optional values.  Python None is the string None for string fields and  *)
(* the record JNull for raw JSON numbers.                                  *)
(***************************************************************************)
EXTENDS Integers, Sequences, FiniteSets, TLC

VARIABLES
    \* ---- inputs of an import run -------------------------------------
    store,          \* the record store file: a sequence of records
    batch_size,     \* import_products(batch_size=...)
    settings,       \* Settings: tax.default_rate, tax.mapping, sales channel
    remote,         \* the remote platform: how it answers, what it holds
    \* ---- import_products locals and the client ------------------------
    pc,             \* position of import_products
    currency_id,    \* currency_id local
    tax_cache,      \* client._tax_cache / tax_cache local: rate -> tax id
    client,         \* ShopwareClient: _token, _currency_cache
    mfr_pending,    \* _send_sync_batches: manufacturer payloads not yet sent
    pos,            \* index of the next record iter_ndjson yields
    batch,          \* the pending product batch
    stack,          \* pending _send_batch invocations, innermost first
    stats,          \* ImportStats
    error_log,      \* errors.ndjson, appended lines
    media_queue,    \* media_queue.ndjson, appended lines
    calls,          \* history: the requests sent to the remote, in order
    closed,         \* client.close() has run
    outcome,        \* how import_products ended: "running", "returned" or the exception
    run,            \* which run over the same store this is
    \* ---- one call of a pure function ------------------------------------
    fn,             \* the arguments and the result of the function applied
    \* ---- the extractor ----------------------------------------------------
    document,       \* the source document: its elements in end-event order
    epos,           \* index of the next element iterparse delivers
    emitted         \* the records yielded so far

vars == << store, batch_size, settings, remote, pc, currency_id, tax_cache, client,
           mfr_pending, pos, batch, stack, stats, error_log, media_queue,
           calls, closed, outcome, run, fn, document, epos, emitted >>

importVars == << store, batch_size, settings, remote, pc, currency_id,
                 tax_cache, client, mfr_pending, pos, batch, stack, stats, error_log,
                 media_queue, calls, closed, outcome, run >>

extractVars == << document, epos, emitted >>

-----------------------------------------------------------------------------
(* Values *)

None == "None"

JNull == [t |-> "null"]

JNum(v) == [t |-> "num", v |-> v]

JStr(s) == [t |-> "str", s |-> s]

\* Python truthiness of an optional string: None and "" are falsy.
Truthy(x) == x # None /\ x # ""

\* 1.0 in the fixed-point scale of tax rates (thousandths).
One == 1000

\* float(text) for the price texts of the model, in cents: <<v>>, or <<>> when
\* Python's float() raises ValueError.
ParseMoney(s) ==
    CASE s = "10.00" -> <<1000>>
      [] s = "9.99"  -> <<999>>
      [] s = "0.50"  -> <<50>>
      [] OTHER       -> <<>>

\* float(text) for the tax-rate texts of the model, in thousandths.
ParseRate(s) ==
    CASE s = "0.19"  -> <<190>>
      [] s = "19"    -> <<19000>>
      [] s = "19.0"  -> <<19000>>
      [] s = "0.190" -> <<190>>
      [] s = "0.005" -> <<5>>
      [] OTHER       -> <<>>

\* str(x) of a float that is a tax rate (Python's repr: shortest digits, always
\* with a fractional part).
FloatStr(v) ==
    CASE v = 0      -> "0.0"
      [] v = 5      -> "0.005"
      [] v = 190    -> "0.19"
      [] v = 500    -> "0.5"
      [] v = 1000   -> "1.0"
      [] v = 5500   -> "5.5"
      [] v = 7000   -> "7.0"
      [] v = 16000  -> "16.0"
      [] v = 19000  -> "19.0"
      [] v = 100000 -> "100.0"
      [] OTHER      -> "?"

\* str(raw_rate): a JSON string is itself, a JSON number prints as a float.
RawStr(raw) == IF raw.t = "str" THEN raw.s ELSE FloatStr(raw.v)


-----------------------------------------------------------------------------
(* importer.py: pure helpers *)

\* dict.get(key): <<value>>, or <<>> for None.
DictGet(d, k) == IF k \in DOMAIN d THEN <<d[k]>> ELSE <<>>

\* Python's `a or b' on optional floats: a when a is truthy (not None, not 0.0),
\* else b.
PyOr(a, b) == IF a # <<>> /\ a[1] # 0 THEN a ELSE b

\* float(raw) of a raw JSON tax rate: <<v>>, or <<>> for TypeError/ValueError.
FloatOfRate(raw) ==
    CASE raw.t = "num" -> <<raw.v>>
      [] raw.t = "str" -> ParseRate(raw.s)
      [] OTHER         -> <<>>

\* _coerce_float(value) of a raw JSON price: <<cents>> or <<>> (None).
CoerceFloat(value) ==
    CASE value.t = "null" -> <<>>
      [] value.t = "num"  -> <<value.v>>
      [] value.t = "str"  -> ParseMoney(value.s)

\* Mutant: 1.0 is taken as a percentage already.
RatePercentBelowOne(rate) == IF rate < One THEN rate * 100 ELSE rate

\* rate * 100 if rate <= 1 else rate
RatePercent(rate) == IF rate <= One THEN rate * 100 ELSE rate

\* _resolve_tax_rate(raw_rate, settings): the normalized percentage.
ResolveTaxRate(raw_rate, s) ==
    IF raw_rate.t = "null" THEN s.tax.default_rate
    ELSE IF FloatOfRate(raw_rate) = <<>> THEN s.tax.default_rate
    ELSE LET rate         == FloatOfRate(raw_rate)[1]
             rate_percent == RatePercent(rate)
             mapped       == PyOr(DictGet(s.tax.mapping, RawStr(raw_rate)),
                                  PyOr(DictGet(s.tax.mapping, FloatStr(rate)),
                                       DictGet(s.tax.mapping, FloatStr(rate_percent))))
         IN  IF mapped # <<>> THEN mapped[1] ELSE rate_percent

\* Mutant: the rate is always taken as a percentage.
GrossRateAlwaysPercent(tax_rate) == tax_rate

\* The rate calculate_gross adds to 1, in units of 1/100000:
\* tax_rate / 100 if tax_rate > 1 else tax_rate.
GrossRate(tax_rate) == IF tax_rate > One THEN tax_rate ELSE tax_rate * 100

\* round(x, 2) of x = num / 100000 cents: the nearest cent; on an exact half
\* cent the float product lies on one side or the other (half: "down", "up").
Round2(num, half) ==
    LET q == num \div 100000
        r == num % 100000
    IN  IF 2 * r < 100000 THEN q
        ELSE IF 2 * r > 100000 THEN q + 1
        ELSE IF half = "up" THEN q + 1 ELSE q

\* calculate_gross(net, tax_rate): net in cents, tax_rate in thousandths.
CalculateGross(net, tax_rate, half) ==
    Round2(net * (100000 + GrossRate(tax_rate)), half)

\* uuid.uuid5(namespace, name): a name-based hash, modelled as collision free.
Uuid5(namespace, name) == << "uuid5", namespace, name >>

\* Mutant: the entity kind is left out of the hashed name.
StableUuidNoPrefix(prefix, value) == Uuid5("NAMESPACE_URL", value)

\* _stable_uuid(prefix, value)
StableUuid(prefix, value) == Uuid5("NAMESPACE_URL", prefix \o ":" \o value)

\* Mutant: an unmapped tax rate rejects the record instead of raising.
UnmappedTaxRejects == [kind |-> "None"]

\* raise ValueError(f"Tax rate {tax_rate} not available in Shopware.")
UnmappedTax == [kind |-> "raise", exc |-> "ValueError"]

\* The payload dict of _build_product_payload for a record that has passed its
\* checks.  description, ean and customFields are copied through and left out
\* here.
ProductPayload(product, s, cur, taxes, half) ==
    LET price_net == CoerceFloat(product.price.net)[1]
        tax_rate  == ResolveTaxRate(product.tax_rate, s)
    IN  [ id             |-> StableUuid("product", product.productNumber),
          productNumber  |-> product.productNumber,
          name           |-> product.name,
          manufacturerId |-> IF Truthy(product.manufacturer)
                             THEN StableUuid("manufacturer", product.manufacturer)
                             ELSE <<>>,
          taxId          |-> taxes[tax_rate],
          price          |-> << [ currencyId |-> cur,
                                  net        |-> price_net,
                                  gross      |-> CalculateGross(price_net, tax_rate, half),
                                  linked     |-> TRUE ] >>,
          stock          |-> 0,
          active         |-> TRUE,
          visibilities   |-> IF Truthy(s.shopware.sales_channel_id)
                             THEN << [ salesChannelId |-> s.shopware.sales_channel_id,
                                       visibility |-> IF s.shopware.default_visibility # 0
                                                      THEN s.shopware.default_visibility
                                                      ELSE 30 ] >>
                             ELSE <<>> ]

\* tax_id = tax_cache.get(tax_rate) of a record's resolved rate: None when the
\* rate is no key of the table.
TaxIdOf(product, s, taxes) ==
    LET tax_rate == ResolveTaxRate(product.tax_rate, s)
    IN  IF tax_rate \in DOMAIN taxes THEN taxes[tax_rate] ELSE None

\* Mutant: the tax rate is looked up before the required fields are checked.
BuildProductPayloadTaxFirst(product, s, cur, taxes, half) ==
    IF ~Truthy(TaxIdOf(product, s, taxes))
    THEN UnmappedTax
    ELSE IF ~Truthy(product.productNumber) \/ ~Truthy(product.name)
    THEN [kind |-> "None"]
    ELSE IF CoerceFloat(product.price.net) = <<>>
    THEN [kind |-> "None"]
    ELSE [kind |-> "payload", payload |-> ProductPayload(product, s, cur, taxes, half)]

\* _build_product_payload(product, settings, currency_id, tax_cache):
\*   [kind |-> "None"], [kind |-> "raise", exc |-> "ValueError"] or
\*   [kind |-> "payload", payload |-> ...].
BuildProductPayload(product, s, cur, taxes, half) ==
    IF ~Truthy(product.productNumber) \/ ~Truthy(product.name)
    THEN [kind |-> "None"]
    ELSE IF CoerceFloat(product.price.net) = <<>>
    THEN [kind |-> "None"]
    ELSE IF ~Truthy(TaxIdOf(product, s, taxes))
    THEN UnmappedTax
    ELSE [kind |-> "payload", payload |-> ProductPayload(product, s, cur, taxes, half)]

-----------------------------------------------------------------------------
(* The remote platform and the sample data of an import run *)

\* Records of the store: JSON objects of the intermediate record format, whose
\* price is an object (a missing price key reads as {}, so net is None).
Rec(pn, name, mfr, net, tax, media) ==
    [ productNumber |-> pn, name |-> name, manufacturer |-> mfr,
      price |-> [net |-> net], tax_rate |-> tax, media |-> media ]

StoreRecords ==
    { Rec("A1", "Widget", "Bolt", JNum(1000),  JNum(190),   <<>>),
      Rec("B2", "Gadget", None,   JStr("9.99"), JNull,      <<"b2.jpg">>),
      Rec(None, "Nameless", "Acme", JNum(999), JNum(16000), <<"n.jpg">>),
      Rec("D4", "Dynamo", "",     JStr("n/a"), JNum(190),   <<>>),
      Rec("E5", "Engine", "Acme", JNum(999),   JNum(16000), <<"e5.jpg">>) }

\* Settings of the import runs: default rate 19 percent, no overrides, no
\* sales channel, a configured token, currency EUR.
ImportSettings ==
    [ tax      |-> [default_rate |-> 19000, mapping |-> [k \in {} |-> 0]],
      shopware |-> [sales_channel_id |-> None, default_visibility |-> 0,
                    token |-> "tok", client_id |-> None, client_secret |-> None],
      mapping  |-> [price_selector |-> [currency |-> "EUR"]] ]

\* The same with each way to configure the credentials: a token (beside client
\* credentials or alone), client credentials only, a client id without its
\* secret, nothing.
AuthSettings ==
    { [ImportSettings EXCEPT !.shopware.token = a[1], !.shopware.client_id = a[2],
                             !.shopware.client_secret = a[3]] :
        a \in { <<"tok", "id", "secret">>, <<"tok", None, None>>, <<None, "id", "secret">>,
                <<None, "id", "">>, <<None, None, None>> } }

\* A client in the state __init__ leaves it in.
NewClient(config) == [token |-> config.token, currency_cache |-> [iso \in {} |-> ""]]

\* Tax tables the remote may hold (taxRate -> id); 16 percent is in none.
RemoteTaxTables ==
    { (19000 :> "tax-19") @@ (7000 :> "tax-7"),
      [k \in {} |-> ""] }

\* Total order of the manufacturer names, as Python sorts the strings.
NameOrder == << "Acme", "Bolt" >>

\* What may come back for a sync request: a status and a body (JSON without or
\* with an "errors" list, nothing, or text that is no JSON such as a gateway's
\* error page), or no response at all when the transport fails or times out.
Responses ==
    { [status |-> 200, body |-> "json"],
      [status |-> 200, body |-> "errors"],
      [status |-> 500, body |-> "empty"],
      [status |-> 502, body |-> "html"],
      [status |-> 0,   body |-> "none"] }

\* _request and sync_upsert on a response: "ok", or the exception raised.  The
\* transport raises an httpx.HTTPError; response.json() runs on any body that
\* is not empty, before the status is looked at, and raises
\* json.JSONDecodeError (a ValueError); then the status, then the errors.
RaisedBy(response) ==
    IF response.status = 0 THEN "TransportError"
    ELSE IF response.body = "html" THEN "JSONDecodeError"
    ELSE IF response.status >= 400 THEN "HTTPStatusError"
    ELSE IF response.body = "errors" THEN "SyncError"
    ELSE "ok"

\* Ways a sync call can fail: the body lists errors (SyncError), the status is
\* >= 400 (httpx.HTTPStatusError), the transport fails or times out (another
\* httpx.HTTPError), or the body is not JSON (json.JSONDecodeError).
CallFailures == { RaisedBy(response) : response \in Responses } \ { "ok" }

\* Mutant: except httpx.HTTPError only, so a SyncError leaves _send_batch.
CaughtOnlyHttp(failure) == failure \in { "HTTPStatusError", "TransportError" }

\* except (SyncError, httpx.HTTPError)
Caught(failure) == failure \in { "SyncError", "HTTPStatusError", "TransportError" }

\* What the remote may answer to an upsert of `group' ("ok" or a failure): a
\* remote that is not flaky rejects, with a list of errors, exactly the calls
\* holding a bad item.
Answers(r, group) ==
    IF r.flaky THEN { "ok" } \cup CallFailures
    ELSE IF \E i \in 1..Len(group) : group[i].productNumber \in r.bad
         THEN { "SyncError" }
         ELSE { "ok" }

\* The remote's entities after an accepted upsert: created or replaced by id.
Upserted(entities, payload) ==
    [ id \in DOMAIN entities \cup { payload[i].id : i \in 1..Len(payload) } |->
        IF \E i \in 1..Len(payload) : payload[i].id = id
        THEN LET last == CHOOSE i \in 1..Len(payload) :
                            /\ payload[i].id = id
                            /\ \A j \in (i+1)..Len(payload) : payload[j].id # id
             IN  payload[last]
        ELSE entities[id] ]

NoEntities == [id \in {} |-> 0]

-----------------------------------------------------------------------------
(* importer.py: manufacturers *)

\* Mutant: only records that carry a product number are looked at.
CollectFromNumbered(records) ==
    { records[i].manufacturer : i \in { j \in 1..Len(records) :
          Truthy(records[j].productNumber) /\ Truthy(records[j].manufacturer) } }

\* _collect_manufacturer_names(ndjson_path)
CollectManufacturerNames(records) ==
    { records[i].manufacturer : i \in { j \in 1..Len(records) : Truthy(records[j].manufacturer) } }

\* sorted(names)
RECURSIVE SortedFrom(_, _)
SortedFrom(names, k) ==
    IF k > Len(NameOrder) THEN <<>>
    ELSE (IF NameOrder[k] \in names THEN << NameOrder[k] >> ELSE <<>>)
         \o SortedFrom(names, k + 1)

Sorted(names) == SortedFrom(names, 1)

\* the payload list _upsert_manufacturers builds
ManufacturerPayload(names) ==
    [ i \in 1..Len(Sorted(names)) |->
        [ id |-> StableUuid("manufacturer", Sorted(names)[i]), name |-> Sorted(names)[i] ] ]

\* batch_size=200 of _upsert_manufacturers
ManufacturerBatchSize == 200

Min(a, b) == IF a < b THEN a ELSE b

-----------------------------------------------------------------------------
(* importer.py: import_products as a state machine.  A step runs from one   *)
(* remote request to the next; the remote's answer is the step's input.     *)

MaxRecords == 3

MaxBatchSize == 2

Stores == UNION { [1..n -> StoreRecords] : n \in 0..MaxRecords }

NewStats == [products_processed |-> 0, products_uploaded |-> 0, errors |-> 0]

\* The state right after client = ShopwareClient(settings.shopware).
Fresh ==
    /\ pc = "get_currency_id"
    /\ currency_id = None
    /\ tax_cache = [k \in {} |-> ""]
    /\ client = NewClient(settings.shopware)
    /\ mfr_pending = <<>>
    /\ pos = 1
    /\ batch = <<>>
    /\ stack = <<>>
    /\ stats = NewStats
    /\ error_log = <<>>
    /\ media_queue = <<>>
    /\ calls = <<>>
    /\ closed = FALSE
    /\ outcome = "running"

Idle ==
    /\ fn = [op |-> "none"]
    /\ document = <<>>
    /\ epos = 1
    /\ emitted = <<>>

Init ==
    /\ store \in Stores
    /\ batch_size \in 0..MaxBatchSize
    /\ settings = ImportSettings
    /\ remote = [flaky |-> TRUE, bad |-> {}, products |-> NoEntities, manufacturers |-> NoEntities]
    /\ run = 1
    /\ Fresh
    /\ Idle

\* Mutant: the exception leaves import_products without closing the client.
RaiseLeavingOpen(exc) ==
    /\ pc' = "aborted"
    /\ outcome' = exc
    /\ closed' = closed

\* An exception leaves import_products: the finally clause closes the client
\* and no statistics are returned.
Raise(exc) ==
    /\ pc' = "aborted"
    /\ outcome' = exc
    /\ closed' = TRUE

\* return stats (after the finally clause)
Return ==
    /\ pc' = "done"
    /\ outcome' = "returned"
    /\ closed' = TRUE

\* A request that is no upsert, as an entry of the history.
Request(entity, answer) == [entity |-> entity, payload |-> <<>>, answer |-> answer, depth |-> 0]

\* Mutant: only the client id is looked at.
MissingClientId(config) == ~Truthy(config.client_id)

\* if not self.config.client_id or not self.config.client_secret
MissingCredentials(config) == ~Truthy(config.client_id) \/ ~Truthy(config.client_secret)

\* _get_token() without a token yet, on the way to the first request: without
\* a complete pair of client credentials it raises ValueError; else one request
\* to the token endpoint, whose failure (raise_for_status, the transport, a
\* body that is no JSON) leaves import_products.
GetToken ==
    /\ pc \in { "get_currency_id", "load_taxes", "upsert_manufacturers" }
    /\ ~Truthy(client.token)
    /\ IF MissingCredentials(settings.shopware)
       THEN /\ Raise("ValueError")
            /\ UNCHANGED << client, calls >>
       ELSE \E answer \in { "ok", "HTTPStatusError", "TransportError", "JSONDecodeError" } :
              /\ calls' = Append(calls, Request("oauth_token", answer))
              /\ IF answer = "ok"
                 THEN /\ client' = [client EXCEPT !.token = "access-token"]
                      /\ UNCHANGED << pc, outcome, closed >>
                 ELSE /\ Raise(answer)
                      /\ UNCHANGED client
    /\ UNCHANGED << store, batch_size, settings, remote, currency_id, tax_cache, mfr_pending,
                    pos, batch, stack, stats, error_log, media_queue, run >>
    /\ UNCHANGED << fn, document, epos, emitted >>

\* Mutant: an empty search result is not looked for.
EmptyDataIgnored(answer) == FALSE

\* if not data: raise ValueError(...)
EmptyData(answer) == answer = "empty"

\* client.get_currency_id(...): one search request; an empty result raises
\* ValueError, a failed request raises.
GetCurrencyId ==
    /\ pc = "get_currency_id"
    /\ Truthy(client.token)
    /\ LET iso_code == settings.mapping.price_selector.currency
       IN  \E answer \in { "found", "empty", "TransportError" } :
             /\ calls' = Append(calls, Request("currency", answer))
             /\ IF answer # "TransportError" /\ ~EmptyData(answer)
                THEN /\ currency_id' = "currency-1"
                     /\ client' = [client EXCEPT !.currency_cache = (iso_code :> "currency-1") @@ @]
                     /\ pc' = "load_taxes"
                     /\ UNCHANGED << outcome, closed >>
                ELSE /\ Raise(IF EmptyData(answer) THEN "ValueError" ELSE answer)
                     /\ UNCHANGED << currency_id, client >>
    /\ UNCHANGED << store, batch_size, settings, remote, tax_cache, mfr_pending, pos,
                    batch, stack, stats, error_log, media_queue, run >>
    /\ UNCHANGED << fn, document, epos, emitted >>

\* client.load_taxes(), then _collect_manufacturer_names and the payload list of
\* _upsert_manufacturers; with no manufacturer _send_sync_batches sends nothing
\* and the record loop starts.
LoadTaxes ==
    /\ pc = "load_taxes"
    /\ Truthy(client.token)
    /\ \/ \E table \in RemoteTaxTables :
            /\ calls' = Append(calls, Request("tax", "ok"))
            /\ tax_cache' = table
            /\ mfr_pending' = ManufacturerPayload(CollectManufacturerNames(store))
            /\ pc' = IF mfr_pending' = <<>> THEN "loop" ELSE "upsert_manufacturers"
            /\ UNCHANGED << outcome, closed >>
       \/ /\ calls' = Append(calls, Request("tax", "TransportError"))
          /\ Raise("TransportError")
          /\ UNCHANGED << tax_cache, mfr_pending >>
    /\ UNCHANGED << store, batch_size, settings, remote, currency_id, client, pos,
                    batch, stack, stats, error_log, media_queue, run >>
    /\ UNCHANGED << fn, document, epos, emitted >>

\* Mutant: the failures _send_batch catches are caught here too, and the group
\* is passed over.
SyncBatchesCaughtAsProducts(failure) == Caught(failure)

\* The failures of sync_upsert caught on the way out of _send_sync_batches and
\* _upsert_manufacturers: neither has an except clause.
SyncBatchesCaught(failure) == FALSE

\* _send_sync_batches: client.sync_upsert("product_manufacturer", batch) for the
\* next group of at most batch_size items; a failure is not caught.
SendSyncBatches ==
    /\ pc = "upsert_manufacturers"
    /\ Truthy(client.token)
    /\ mfr_pending # <<>>
    /\ LET n     == Min(ManufacturerBatchSize, Len(mfr_pending))
           group == SubSeq(mfr_pending, 1, n)
           rest  == SubSeq(mfr_pending, n + 1, Len(mfr_pending))
       IN  \E answer \in { "ok" } \cup CallFailures :
             /\ calls' = Append(calls, [entity |-> "product_manufacturer", payload |-> group,
                                        answer |-> answer, depth |-> 0])
             /\ IF answer = "ok"
                THEN /\ remote' = [remote EXCEPT !.manufacturers = Upserted(@, group)]
                     /\ mfr_pending' = rest
                     /\ pc' = IF rest = <<>> THEN "loop" ELSE "upsert_manufacturers"
                     /\ UNCHANGED << outcome, closed >>
                ELSE IF SyncBatchesCaught(answer)
                THEN /\ mfr_pending' = rest
                     /\ pc' = IF rest = <<>> THEN "loop" ELSE "upsert_manufacturers"
                     /\ UNCHANGED << remote, outcome, closed >>
                ELSE /\ Raise(answer)
                     /\ UNCHANGED << remote, mfr_pending >>
    /\ UNCHANGED << store, batch_size, settings, currency_id, tax_cache, client, pos,
                    batch, stack, stats, error_log, media_queue, run >>
    /\ UNCHANGED << fn, document, epos, emitted >>

\* Mutant: the batch is sent only once it is longer than batch_size.
BatchOverfull(n, size) == n > size

\* len(batch) >= batch_size
BatchFull(n, size) == n >= size

\* Mutant: an accepted call counts as one upload, whatever its size.
CountUploadedCalls(st, group) == [st EXCEPT !.products_uploaded = @ + 1]

\* stats.products_uploaded += len(batch)
CountUploaded(st, group) == [st EXCEPT !.products_uploaded = @ + Len(group)]

\* Mutant: the error is counted twice.
CountErrorTwice(st) == [st EXCEPT !.errors = @ + 2]

\* stats.errors += 1
CountError(st) == [st EXCEPT !.errors = @ + 1]

\* Mutant: the first item is split off: batch[:1], batch[1:].
HalvesHeadTail(group) == << SubSeq(group, 1, 1), SubSeq(group, 2, Len(group)) >>

\* Mutant: the second half starts one item late: batch[:mid], batch[mid + 1:].
HalvesDropMiddle(group) ==
    LET mid == Len(group) \div 2
    IN  << SubSeq(group, 1, mid), SubSeq(group, mid + 2, Len(group)) >>

\* mid = len(batch) // 2; batch[:mid] and batch[mid:]
Halves(group) ==
    LET mid == Len(group) \div 2
    IN  << SubSeq(group, 1, mid), SubSeq(group, mid + 1, Len(group)) >>

\* One iteration of the record loop, up to the first request of _send_batch
\* when the batch is full.
\* Mutant: an entry is appended for every record, with or without media.
QueueMediaAlways(queue, product) ==
    Append(queue, [productNumber |-> product.productNumber, media |-> product.media])

\* if product.get("media"): append_ndjson({productNumber, media}, media_queue_path)
QueueMedia(queue, product) ==
    IF product.media # <<>>
    THEN Append(queue, [productNumber |-> product.productNumber, media |-> product.media])
    ELSE queue

ProcessRecord ==
    /\ pc = "loop"
    /\ pos <= Len(store)
    /\ \E half \in { "down", "up" } :
        LET product == store[pos]
            built   == BuildProductPayload(product, settings, currency_id, tax_cache, half)
            counted == [stats EXCEPT !.products_processed = @ + 1]
        IN  CASE built.kind = "None" ->
                   /\ stats' = CountError(counted)
                   /\ error_log' = Append(error_log, [item |-> product, reason |-> "missing_required_fields"])
                   /\ pos' = pos + 1
                   /\ UNCHANGED << pc, outcome, closed, media_queue, batch, stack >>
              [] built.kind = "raise" ->
                   /\ stats' = counted
                   /\ Raise(built.exc)
                   /\ UNCHANGED << error_log, pos, media_queue, batch, stack >>
              [] built.kind = "payload" ->
                   /\ stats' = counted
                   /\ media_queue' = QueueMedia(media_queue, product)
                   /\ pos' = pos + 1
                   /\ IF BatchFull(Len(batch) + 1, batch_size)
                      THEN /\ stack' = << [group |-> Append(batch, built.payload), depth |-> 0] >>
                           /\ batch' = <<>>
                           /\ pc' = "send_batch"
                      ELSE /\ batch' = Append(batch, built.payload)
                           /\ UNCHANGED << stack, pc >>
                   /\ UNCHANGED << error_log, outcome, closed >>
    /\ UNCHANGED << store, batch_size, settings, remote, currency_id, tax_cache, client,
                    mfr_pending, calls, run >>
    /\ UNCHANGED << fn, document, epos, emitted >>

\* The end of the stream: flush the partial batch, or return the statistics.
EndOfStream ==
    /\ pc = "loop"
    /\ pos > Len(store)
    /\ IF batch # <<>>
       THEN /\ stack' = << [group |-> batch, depth |-> 0] >>
            /\ pc' = "flush"
            /\ UNCHANGED << outcome, closed >>
       ELSE /\ Return
            /\ UNCHANGED stack
    /\ UNCHANGED << store, batch_size, settings, remote, currency_id, tax_cache, client,
                    mfr_pending, pos, batch, stats, error_log, media_queue, calls, run >>
    /\ UNCHANGED << fn, document, epos, emitted >>

\* Where import_products goes on when the outermost _send_batch has returned.
AfterSendBatch(at) ==
    IF at = "flush" THEN Return
    ELSE /\ pc' = "loop"
         /\ UNCHANGED << outcome, closed >>

\* _send_batch(batch, ...) of the innermost pending invocation: one
\* client.sync_upsert("product", batch) and what follows its answer.
SendBatch ==
    /\ pc \in { "send_batch", "flush" }
    /\ stack # <<>>
    /\ Truthy(client.token)
    /\ LET group == Head(stack).group
           depth == Head(stack).depth
       IN  \E answer \in Answers(remote, group) :
             /\ calls' = Append(calls, [entity |-> "product", payload |-> group,
                                        answer |-> answer, depth |-> depth])
             /\ IF answer = "ok"
                THEN /\ remote' = [remote EXCEPT !.products = Upserted(@, group)]
                     /\ stats' = CountUploaded(stats, group)
                     /\ stack' = Tail(stack)
                     /\ IF stack' = <<>> THEN AfterSendBatch(pc) ELSE UNCHANGED << pc, outcome, closed >>
                     /\ UNCHANGED error_log
                ELSE IF ~Caught(answer)
                THEN /\ Raise(answer)
                     /\ UNCHANGED << remote, stats, stack, error_log >>
                ELSE IF Len(group) = 1
                THEN /\ stats' = CountError(stats)
                     /\ error_log' = Append(error_log, [item |-> group[1], reason |-> answer])
                     /\ stack' = Tail(stack)
                     /\ IF stack' = <<>> THEN AfterSendBatch(pc) ELSE UNCHANGED << pc, outcome, closed >>
                     /\ UNCHANGED remote
                ELSE /\ stack' = << [group |-> Halves(group)[1], depth |-> depth + 1],
                                    [group |-> Halves(group)[2], depth |-> depth + 1] >>
                                 \o Tail(stack)
                     /\ UNCHANGED << remote, stats, error_log, pc, outcome, closed >>
    /\ UNCHANGED << store, batch_size, settings, currency_id, tax_cache, client,
                    mfr_pending, pos, batch, media_queue, run >>
    /\ UNCHANGED << fn, document, epos, emitted >>

Next ==
    \/ GetCurrencyId
    \/ LoadTaxes
    \/ SendSyncBatches
    \/ ProcessRecord
    \/ EndOfStream
    \/ SendBatch

Spec == Init /\ [][Next]_vars

-----------------------------------------------------------------------------
(* _send_batch on its own: a group of payloads handed to _send_batch, against *)
(* a remote that rejects exactly the calls holding a bad item, or a flaky one *)

MaxGroup == 5

MaxFlakyGroup == 3

\* Payloads to upload: those the builder makes of the product numbers below.
GroupProducts == { "A1", "B2", "C3" }

GroupPayload(pn) ==
    BuildProductPayload(Rec(pn, "Item " \o pn, None, JNum(1000), JNum(190), <<>>),
                        ImportSettings, "currency-1", (19000 :> "tax-19"), "down").payload

Groups(max) == UNION { [1..n -> { GroupPayload(pn) : pn \in GroupProducts }] : n \in 1..max }

\* _send_batch entered with a group of at most maxGroup payloads against a
\* remote that rejects the bad items, or of at most maxFlaky payloads against a
\* remote that answers as it likes.
InitBatchOf(maxGroup, maxFlaky) ==
    /\ store = <<>>
    /\ batch_size = 0
    /\ settings = ImportSettings
    /\ \/ \E bad \in SUBSET GroupProducts, group \in Groups(maxGroup) :
            /\ remote = [flaky |-> FALSE, bad |-> bad, products |-> NoEntities, manufacturers |-> NoEntities]
            /\ stack = << [group |-> group, depth |-> 0] >>
       \/ \E group \in Groups(maxFlaky) :
            /\ remote = [flaky |-> TRUE, bad |-> {}, products |-> NoEntities, manufacturers |-> NoEntities]
            /\ stack = << [group |-> group, depth |-> 0] >>
    /\ run = 1
    /\ pc = "send_batch"
    /\ currency_id = "currency-1"
    /\ tax_cache = (19000 :> "tax-19")
    /\ client = [token |-> "tok", currency_cache |-> ("EUR" :> "currency-1")]
    /\ mfr_pending = <<>>
    /\ pos = 1
    /\ batch = <<>>
    /\ stats = NewStats
    /\ error_log = <<>>
    /\ media_queue = <<>>
    /\ calls = <<>>
    /\ closed = FALSE
    /\ outcome = "running"
    /\ fn = [op |-> "_send_batch", batch |-> Head(stack).group]
    /\ document = <<>>
    /\ epos = 1
    /\ emitted = <<>>

InitBatch == InitBatchOf(MaxGroup, MaxFlakyGroup)

NextBatch == SendBatch

SpecBatch == InitBatch /\ [][NextBatch]_vars

\* The same with the call going on: _send_batch is synchronous code that takes
\* its next step whenever it has one.
MaxFairFlakyGroup == 2

InitBatchFair == InitBatchOf(MaxGroup, MaxFairFlakyGroup)

SpecBatchFair == InitBatchFair /\ [][NextBatch]_vars /\ WF_vars(NextBatch)

-----------------------------------------------------------------------------
(* The import run again over the same store, against a remote that upserts by *)
(* id and rejects exactly the calls holding a bad item                        *)

MaxRuns == 2

MaxRerunRecords == 2

\* Two records share a product number, and one product number is also a
\* manufacturer name.
RerunRecords ==
    { Rec("A1",   "Widget",     "Bolt", JNum(1000), JNum(190),  <<>>),
      Rec("A1",   "Widget mk2", "Acme", JNum(999),  JStr("19"), <<>>),
      Rec("Acme", "Acme kit",   "Acme", JNum(1000), JNull,      <<>>),
      Rec("D4",   "Dynamo",     "",     JStr("n/a"), JNum(190), <<>>) }

InitRerun ==
    /\ store \in UNION { [1..n -> RerunRecords] : n \in 1..MaxRerunRecords }
    /\ batch_size \in 1..MaxBatchSize
    /\ settings = ImportSettings
    /\ \E bad \in SUBSET { "A1", "Acme" } :
         remote = [flaky |-> FALSE, bad |-> bad, products |-> NoEntities, manufacturers |-> NoEntities]
    /\ run = 1
    /\ Fresh
    /\ fn = [op |-> "rerun", first |-> [products |-> NoEntities, manufacturers |-> NoEntities]]
    /\ document = <<>>
    /\ epos = 1
    /\ emitted = <<>>

\* The command is run again once it has returned: a new client and new
\* statistics, the same store and the same remote.  What the remote held after
\* the first run is kept for comparison.
Rerun ==
    /\ pc = "done"
    /\ run < MaxRuns
    /\ run' = run + 1
    /\ fn' = IF run = 1
             THEN [fn EXCEPT !.first = [products |-> remote.products,
                                        manufacturers |-> remote.manufacturers]]
             ELSE fn
    /\ pc' = "get_currency_id"
    /\ currency_id' = None
    /\ tax_cache' = [k \in {} |-> ""]
    /\ client' = NewClient(settings.shopware)
    /\ mfr_pending' = <<>>
    /\ pos' = 1
    /\ batch' = <<>>
    /\ stack' = <<>>
    /\ stats' = NewStats
    /\ calls' = <<>>
    /\ closed' = FALSE
    /\ outcome' = "running"
    /\ UNCHANGED << store, batch_size, settings, remote, error_log, media_queue >>
    /\ UNCHANGED << document, epos, emitted >>

NextRerun ==
    \/ GetCurrencyId
    \/ LoadTaxes
    \/ SendSyncBatches
    \/ ProcessRecord
    \/ EndOfStream
    \/ SendBatch
    \/ Rerun

SpecRerun == InitRerun /\ [][NextRerun]_vars

-----------------------------------------------------------------------------
(* Import runs against a remote that answers an upsert the same way each     *)
(* time, with every configuration of the credentials.                        *)

MaxSteadyRecords == 3

\* Records of these runs: one without media, two with media, one with media
\* and a net price that is no number, one with media and a tax rate of 16
\* percent.
SteadyRecords ==
    { Rec("A1", "Widget", "Bolt", JNum(1000),  JNum(190),   <<>>),
      Rec("B2", "Gadget", None,   JStr("9.99"), JNull,      <<"b2.jpg">>),
      Rec("C3", "Crank",  "Acme", JNum(999),   JNum(19000), <<"c3.jpg", "c3.png">>),
      Rec("D4", "Dynamo", "",     JStr("n/a"), JNum(190),   <<"d4.jpg">>),
      Rec("E5", "Engine", "Acme", JNum(999),   JNum(16000), <<"e5.jpg">>) }

InitSteady ==
    /\ store \in UNION { [1..n -> SteadyRecords] : n \in 0..MaxSteadyRecords }
    /\ batch_size \in 1..MaxBatchSize
    /\ settings \in AuthSettings
    /\ \E bad \in SUBSET { "B2" } :
         remote = [flaky |-> FALSE, bad |-> bad, products |-> NoEntities, manufacturers |-> NoEntities]
    /\ run = 1
    /\ Fresh
    /\ Idle

NextSteady ==
    \/ GetToken
    \/ GetCurrencyId
    \/ LoadTaxes
    \/ SendSyncBatches
    \/ ProcessRecord
    \/ EndOfStream
    \/ SendBatch

SpecSteady == InitSteady /\ [][NextSteady]_vars

-----------------------------------------------------------------------------
(* Import runs over records that fail the checks of _build_product_payload,  *)
(* against a remote that accepts every upsert.                               *)

MaxCheckedRecords == 4

\* Records of these runs: one that passes every check, one whose tax rate of
\* 16 percent is in no tax table, and three with that tax rate that lack the
\* product number, the name and a net price that is a number.
CheckedRecords ==
    { Rec("A1", "Widget", "Bolt", JNum(1000),  JNum(190),   <<>>),
      Rec("E5", "Engine", "Acme", JNum(999),   JNum(16000), <<"e5.jpg">>),
      Rec(None, "Nameless", "Acme", JNum(999), JNum(16000), <<"n.jpg">>),
      Rec("F6", "",       None,   JNum(1000),  JNum(16000), <<>>),
      Rec("D4", "Dynamo", "",     JStr("n/a"), JNum(16000), <<>>) }

InitChecked ==
    /\ store \in UNION { [1..n -> CheckedRecords] : n \in 0..MaxCheckedRecords }
    /\ batch_size \in 0..MaxBatchSize
    /\ settings = ImportSettings
    /\ remote = [flaky |-> FALSE, bad |-> {}, products |-> NoEntities, manufacturers |-> NoEntities]
    /\ run = 1
    /\ Fresh
    /\ Idle

SpecChecked == InitChecked /\ [][Next]_vars

-----------------------------------------------------------------------------
(* The pure functions of importer.py applied to drawn arguments *)

MaxNet == 60

\* Net prices in cents: every amount up to MaxNet, and those of the tests.
Nets == 0..MaxNet \cup { 999, 1000 }

\* Tax rates in thousandths: fractions (0, 0.005, 0.01, 0.011, 0.07, 0.19,
\* 0.5, 1) and percentages (1.001, 5.5, 7, 19, 100).
Rates == { 0, 5, 10, 11, 70, 190, 500, 1000, 1001, 5500, 7000, 19000, 100000 }

\* Records handed to the payload builder.
PayloadRecords ==
    { Rec(pn, name, mfr, net, tax, <<>>) :
        pn   \in { "A1", None, "" },
        name \in { "Widget", None },
        mfr  \in { None, "Acme" },
        net  \in { JNum(1000), JNum(999), JNum(50), JNull, JStr("9.99"), JStr("n/a") },
        tax  \in { JNull, JNum(190), JNum(19000), JNum(5), JNum(1000), JNum(16000),
                   JStr("0.190"), JStr("19"), JStr("abc") } }

\* Settings handed to the payload builder.
PayloadSettings ==
    { [ tax      |-> [default_rate |-> d, mapping |-> m],
        shopware |-> [sales_channel_id |-> sc, default_visibility |-> 0] ] :
        d  \in { 19000, 1000 },
        m  \in { [k \in {} |-> 0],
                 ("0.19" :> 7000),
                 ("0.19" :> 0) @@ ("19.0" :> 7000),
                 ("0.190" :> 16000) @@ ("0.19" :> 5500) @@ ("19.0" :> 7000) },
        sc \in { None, "sc-1" } }

\* Raw tax rates handed to the resolver: absent, numbers (0, 0.005, 0.19, 1,
\* 5.5, 16, 19) and texts, one of them no number.
RawRates ==
    { JNull, JNum(0), JNum(5), JNum(190), JNum(1000), JNum(5500), JNum(16000), JNum(19000),
      JStr("0.190"), JStr("0.19"), JStr("19"), JStr("abc") }

\* The tax table the builder is given: 0, 0.5, 1, 7, 19 and 100 percent.
PayloadTaxTable ==
    (0 :> "tax-0") @@ (500 :> "tax-0.5") @@ (1000 :> "tax-1") @@ (7000 :> "tax-7")
    @@ (19000 :> "tax-19") @@ (100000 :> "tax-100")

\* No import run is going on.
NoImport ==
    /\ store = <<>>
    /\ batch_size = 1
    /\ remote = [flaky |-> FALSE, bad |-> {}, products |-> NoEntities, manufacturers |-> NoEntities]
    /\ run = 1
    /\ pc = "idle"
    /\ client = NewClient(ImportSettings.shopware)
    /\ mfr_pending = <<>>
    /\ pos = 1
    /\ batch = <<>>
    /\ stack = <<>>
    /\ stats = NewStats
    /\ error_log = <<>>
    /\ media_queue = <<>>
    /\ calls = <<>>
    /\ closed = FALSE
    /\ outcome = "running"

InitPayload ==
    /\ NoImport
    /\ document = <<>>
    /\ epos = 1
    /\ emitted = <<>>
    /\ currency_id = "currency-1"
    /\ tax_cache = PayloadTaxTable
    /\ \/ /\ settings = ImportSettings
          /\ \E net \in Nets, tax_rate \in Rates, half \in { "down", "up" } :
               fn = [op |-> "calculate_gross", net |-> net, tax_rate |-> tax_rate, half |-> half,
                     done |-> FALSE, result |-> 0, done_percent |-> FALSE, result_percent |-> 0]
       \/ /\ settings \in PayloadSettings
          /\ \E product \in PayloadRecords, half \in { "down", "up" } :
               fn = [op |-> "_build_product_payload", product |-> product, half |-> half,
                     done |-> FALSE, result |-> [kind |-> "None"]]
       \/ /\ settings \in PayloadSettings
          /\ \E raw_rate \in RawRates :
               fn = [op |-> "_resolve_tax_rate", raw_rate |-> raw_rate, done |-> FALSE, result |-> 0]

\* calculate_gross(net, tax_rate)
CalculateGrossCall ==
    /\ fn.op = "calculate_gross" /\ ~fn.done
    /\ fn' = [fn EXCEPT !.done = TRUE, !.result = CalculateGross(fn.net, fn.tax_rate, fn.half)]
    /\ UNCHANGED importVars
    /\ UNCHANGED << document, epos, emitted >>

\* calculate_gross(net, 100 * tax_rate) for a fraction above 0.01: the same
\* rate given as a percentage.
CalculateGrossPercentCall ==
    /\ fn.op = "calculate_gross" /\ ~fn.done_percent
    /\ fn.tax_rate > 10 /\ fn.tax_rate <= One
    /\ fn' = [fn EXCEPT !.done_percent = TRUE,
                        !.result_percent = CalculateGross(fn.net, 100 * fn.tax_rate, fn.half)]
    /\ UNCHANGED importVars
    /\ UNCHANGED << document, epos, emitted >>

\* _build_product_payload(product, settings, currency_id, tax_cache)
BuildProductPayloadCall ==
    /\ fn.op = "_build_product_payload" /\ ~fn.done
    /\ fn' = [fn EXCEPT !.done = TRUE,
                        !.result = BuildProductPayload(fn.product, settings, currency_id, tax_cache, fn.half)]
    /\ UNCHANGED importVars
    /\ UNCHANGED << document, epos, emitted >>

\* _resolve_tax_rate(raw_rate, settings)
ResolveTaxRateCall ==
    /\ fn.op = "_resolve_tax_rate" /\ ~fn.done
    /\ fn' = [fn EXCEPT !.done = TRUE, !.result = ResolveTaxRate(fn.raw_rate, settings)]
    /\ UNCHANGED importVars
    /\ UNCHANGED << document, epos, emitted >>

NextPayload ==
    \/ CalculateGrossCall
    \/ CalculateGrossPercentCall
    \/ BuildProductPayloadCall
    \/ ResolveTaxRateCall

SpecPayload == InitPayload /\ [][NextPayload]_vars

-----------------------------------------------------------------------------
(* shopware.py: one client and a sequence of calls of its lookups *)

MaxClientCalls == 3

\* ISO codes asked for.
IsoCodes == { "EUR", "USD" }

\* What a currency search may find: one of two ids, or nothing.
CurrencyData == { << "currency-1" >>, << "currency-2" >>, <<>> }

\* Tax rates asked for: 19 and 16 percent.
AskedRates == { 19000, 16000 }

InitClient ==
    /\ NoImport
    /\ settings = ImportSettings
    /\ currency_id = None
    /\ tax_cache = [k \in {} |-> ""]
    /\ document = <<>>
    /\ epos = 1
    /\ emitted = <<>>
    /\ fn = [op |-> "client", done |-> 0, call |-> <<>>, result |-> <<>>]

\* What a call of a lookup leaves alone.
ClientCallFrame ==
    /\ fn.op = "client"
    /\ fn.done < MaxClientCalls
    /\ Truthy(client.token)
    /\ UNCHANGED << store, batch_size, settings, remote, pc, currency_id, mfr_pending, pos,
                    batch, stack, stats, error_log, media_queue, closed, outcome, run >>
    /\ UNCHANGED << document, epos, emitted >>

\* The call `call' has ended with `result' (a value, or the exception raised).
Returned(call, result) == fn' = [fn EXCEPT !.done = @ + 1, !.call = call, !.result = result]

\* client.get_currency_id(iso_code)
ClientGetCurrencyId ==
    /\ ClientCallFrame
    /\ \E iso_code \in IsoCodes :
         IF iso_code \in DOMAIN client.currency_cache
         THEN /\ Returned(<< "get_currency_id", iso_code >>, client.currency_cache[iso_code])
              /\ UNCHANGED << client, calls >>
         ELSE \E data \in CurrencyData :
                /\ calls' = Append(calls, Request("currency", IF data = <<>> THEN "empty" ELSE "found"))
                /\ IF data = <<>>
                   THEN /\ Returned(<< "get_currency_id", iso_code >>, "ValueError")
                        /\ UNCHANGED client
                   ELSE /\ client' = [client EXCEPT !.currency_cache = (iso_code :> data[1]) @@ @]
                        /\ Returned(<< "get_currency_id", iso_code >>, data[1])
    /\ UNCHANGED tax_cache

\* if self._tax_cache: the cache holds a rate.
TaxesLoaded(cache) == DOMAIN cache # {}

\* self._tax_cache[rate] = item["id"] for each item of the answer
Merged(cache, table) == table @@ cache

\* client.load_taxes()
ClientLoadTaxes ==
    /\ ClientCallFrame
    /\ IF TaxesLoaded(tax_cache)
       THEN /\ Returned(<< "load_taxes" >>, tax_cache)
            /\ UNCHANGED << tax_cache, calls >>
       ELSE \E table \in RemoteTaxTables :
              /\ calls' = Append(calls, Request("tax", "ok"))
              /\ tax_cache' = Merged(tax_cache, table)
              /\ Returned(<< "load_taxes" >>, tax_cache')
    /\ UNCHANGED client

\* client.get_tax_id(tax_rate)
ClientGetTaxId ==
    /\ ClientCallFrame
    /\ \E tax_rate \in AskedRates :
         LET result(taxes) == IF tax_rate \in DOMAIN taxes THEN taxes[tax_rate] ELSE "ValueError"
         IN  IF TaxesLoaded(tax_cache)
             THEN /\ Returned(<< "get_tax_id", tax_rate >>, result(tax_cache))
                  /\ UNCHANGED << tax_cache, calls >>
             ELSE \E table \in RemoteTaxTables :
                    /\ calls' = Append(calls, Request("tax", "ok"))
                    /\ tax_cache' = Merged(tax_cache, table)
                    /\ Returned(<< "get_tax_id", tax_rate >>, result(tax_cache'))
    /\ UNCHANGED client

NextClient ==
    \/ ClientGetCurrencyId
    \/ ClientLoadTaxes
    \/ ClientGetTaxId

SpecClient == InitClient /\ [][NextClient]_vars

-----------------------------------------------------------------------------
(* bmecat.py: the extractor.  Texts are sequences of characters; an optional *)
(* text is <<>> (None) or <<text>>.  An element has a tag, qualified          *)
(* ("{", namespace, "}", local name) or not, and its descendants in document  *)
(* order, each with a namespace, a local name and an optional text.           *)

Whitespace == { " ", "\n", "\t" }

\* Mutant: only leading whitespace is removed (lstrip).
RECURSIVE StripLeft(_)
StripLeft(text) ==
    IF text # <<>> /\ Head(text) \in Whitespace THEN StripLeft(Tail(text)) ELSE text

\* str.strip()
RECURSIVE Strip(_)
Strip(text) ==
    IF text = <<>> THEN text
    ELSE IF Head(text) \in Whitespace THEN Strip(Tail(text))
    ELSE IF text[Len(text)] \in Whitespace THEN Strip(SubSeq(text, 1, Len(text) - 1))
    ELSE text

\* _strip_ns(tag): the part after the first "}" when there is one.
StripNs(tag) ==
    IF \E i \in 1..Len(tag) : tag[i] = "}"
    THEN LET i == CHOOSE i \in 1..Len(tag) : tag[i] = "}" /\ \A j \in 1..(i - 1) : tag[j] # "}"
         IN  SubSeq(tag, i + 1, Len(tag))
    ELSE tag

\* elem.find(".//{*}tag"): the index of the first descendant with that local
\* name in any namespace, 0 for None.
Find(elem, tag) ==
    IF \E i \in 1..Len(elem.children) : elem.children[i].name = tag
    THEN CHOOSE i \in 1..Len(elem.children) :
            /\ elem.children[i].name = tag
            /\ \A j \in 1..(i - 1) : elem.children[j].name # tag
    ELSE 0

\* _find_text(elem, tag): <<text>>, or <<>> for None.
FindText(elem, tag) ==
    LET found == Find(elem, tag)
    IN  IF found = 0 THEN <<>>
        ELSE IF elem.children[found].text = <<>> THEN <<>>
        ELSE LET text == Strip(elem.children[found].text[1])
             IN  IF text = <<>> THEN <<>> ELSE << text >>

\* elem.findall(".//{*}tag"): the indices of the descendants with that local
\* name, in document order.
FindAll(elem, tag) == { i \in 1..Len(elem.children) : elem.children[i].name = tag }

\* float(amount) of a trimmed amount text, in cents: <<v>>, or <<>> when float
\* raises ValueError.
FloatOfAmount(amount) ==
    CASE amount = <<"9", ".", "9", "9">> -> << 999 >>
      [] amount = <<"1", "0">>           -> << 1000 >>
      [] amount = <<"0", ".", "5">>      -> << 50 >>
      [] OTHER                           -> <<>>

\* _find_price(elem, price_type): the dict built from the first ARTICLE_PRICE
\* whose price_type attribute is the configured one; both keys are always set.
FindPrice(elem, price_type) ==
    LET matching == { i \in FindAll(elem, "ARTICLE_PRICE") : elem.children[i].price_type = price_type }
    IN  IF matching = {} THEN [net |-> <<>>, currency |-> <<>>]
        ELSE LET price  == elem.children[CHOOSE i \in matching : \A j \in matching : i <= j]
                 amount == FindText(price, "PRICE_AMOUNT")
             IN  [ net      |-> IF amount = <<>> THEN <<>> ELSE FloatOfAmount(amount[1]),
                   currency |-> FindText(price, "PRICE_CURRENCY") ]

\* float(value) of a trimmed tax-rate text, in thousandths: <<v>>, or <<>> when
\* float raises ValueError.
FloatOfTax(value) ==
    CASE value = <<"1", "9">>           -> << 19000 >>
      [] value = <<"0", ".", "1", "9">> -> << 190 >>
      [] value = <<"7">>                -> << 7000 >>
      [] OTHER                          -> <<>>

\* The candidate tags of _find_tax, in the order of its loop.
TaxTags == << "TAX", "TAX_RATE", "TAX_RATE_PERCENT" >>

\* The loop of _find_tax from the candidate tags still to try: a tag without a
\* text is skipped; the first tag with a text ends the loop, with its number or,
\* when float() raises ValueError, with None.
RECURSIVE FindTaxFrom(_, _)
FindTaxFrom(elem, tags) ==
    IF tags = <<>> THEN <<>>
    ELSE LET value == FindText(elem, Head(tags))
         IN  IF value = <<>> THEN FindTaxFrom(elem, Tail(tags))
             ELSE FloatOfTax(value[1])

\* _find_tax(elem): <<rate>>, or <<>> for None.
FindTax(elem) == FindTaxFrom(elem, TaxTags)

\* dict.get(key, default): the default only when the key is not in the dict.
GetOrDefault(d, key, default) == IF key \in DOMAIN d THEN d[key] ELSE default

\* The field-name mapping of the tests.
Mapping ==
    [ product_number |-> "SUPPLIER_PID", name |-> "DESCRIPTION_SHORT",
      price_selector |-> [price_type |-> "net_list", currency |-> << <<"E", "U", "R">> >>] ]

\* _parse_article(elem, mapping): <<product>>, or <<>> for None.  Of the
\* optional fields the price and the tax rate are modelled; none of them
\* decides whether a record is produced.
ParseArticle(elem, mapping) ==
    LET product_number == FindText(elem, mapping.product_number)
        name           == FindText(elem, mapping.name)
        price_info     == FindPrice(elem, mapping.price_selector.price_type)
        price_net      == price_info.net
        currency       == GetOrDefault(price_info, "currency", mapping.price_selector.currency)
        tax_rate       == FindTax(elem)
    IN  IF product_number = <<>> \/ name = <<>> THEN <<>>
        ELSE << [ productNumber |-> product_number[1], name |-> name[1],
                  price |-> [net |-> price_net, currency |-> currency],
                  tax_rate |-> tax_rate ] >>

MaxElements == 2

Child(ns, name, text) == [ns |-> ns, name |-> name, text |-> text]

\* Product-number descendants of an item: none, one without text, one of
\* blanks, one to trim, one plain, or an empty one before one with text.
PidChildren ==
    { <<>>,
      << Child("", "SUPPLIER_PID", <<>>) >>,
      << Child("", "SUPPLIER_PID", << <<" ", "\n">> >>) >>,
      << Child("urn:bme", "SUPPLIER_PID", << <<" ", "A", "1", " ">> >>) >>,
      << Child("", "SUPPLIER_PID", << <<"B", " ", "2">> >>) >>,
      << Child("", "SUPPLIER_PID", << <<>> >>), Child("", "SUPPLIER_PID", << <<"C", "3">> >>) >> }

NameChildren ==
    { <<>>,
      << Child("", "DESCRIPTION_SHORT", << <<"\t">> >>) >>,
      << Child("", "DESCRIPTION_SHORT", << <<"N", "u", "t", "\n">> >>) >> }

\* An ARTICLE_PRICE element: its price_type attribute (None when it has none)
\* and its own descendants.
ArticlePrice(price_type, children) ==
    [ns |-> "", name |-> "ARTICLE_PRICE", text |-> <<>>, price_type |-> price_type, children |-> children]

\* Price descendants of an item: a price of the configured type with a
\* currency, one without a currency element, one with a blank currency, only a
\* price of another type, and a price of another type before the configured
\* one with an amount that is no number.
PriceChildren ==
    { << ArticlePrice("net_list", << Child("", "PRICE_AMOUNT", << <<"9", ".", "9", "9">> >>),
                                     Child("", "PRICE_CURRENCY", << <<" ", "U", "S", "D">> >>) >>) >>,
      << ArticlePrice("net_list", << Child("", "PRICE_AMOUNT", << <<"1", "0">> >>) >>) >>,
      << ArticlePrice("net_list", << Child("", "PRICE_AMOUNT", << <<"0", ".", "5">> >>),
                                     Child("", "PRICE_CURRENCY", << <<" ">> >>) >>) >>,
      << ArticlePrice("net_customer", << Child("", "PRICE_AMOUNT", << <<"1", "0">> >>),
                                         Child("", "PRICE_CURRENCY", << <<"U", "S", "D">> >>) >>) >>,
      << ArticlePrice(None, << Child("", "PRICE_CURRENCY", << <<"U", "S", "D">> >>) >>),
         ArticlePrice("net_list", << Child("", "PRICE_AMOUNT", << <<"n", "/", "a">> >>),
                                     Child("", "PRICE_CURRENCY", << <<"C", "H", "F">> >>) >>) >> }

\* Tax descendants of an item: one candidate with a number, a candidate that
\* is no number before one that is, a blank candidate before a number, the
\* candidates out of their order in the document, candidates that are all no
\* numbers, and a number to trim after a candidate without text.
TaxChildren ==
    { << Child("", "TAX", << <<"0", ".", "1", "9">> >>) >>,
      << Child("", "TAX", << <<"n", "/", "a">> >>), Child("", "TAX_RATE", << <<"1", "9">> >>) >>,
      << Child("", "TAX", << <<" ">> >>), Child("", "TAX_RATE_PERCENT", << <<"7">> >>) >>,
      << Child("", "TAX_RATE_PERCENT", << <<"7">> >>), Child("", "TAX_RATE", << <<"1", "9">> >>) >>,
      << Child("", "TAX_RATE", << <<"x">> >>), Child("", "TAX_RATE_PERCENT", << <<"1", "9", "%">> >>) >>,
      << Child("", "TAX", <<>>), Child("urn:bme", "TAX_RATE", << <<" ", "7", "\n">> >>) >> }

\* The elements iterparse may deliver: items with and without a namespace and
\* without a price, complete items with a price or with tax candidates, and an
\* element that is no item though it holds both fields.
Elements ==
    { [tag |-> tag, children |-> pid \o name] :
        tag \in { <<"ARTICLE">>, <<"{", "urn:bme", "}", "ARTICLE">> },
        pid \in PidChildren, name \in NameChildren }
    \cup { [tag |-> <<"ARTICLE">>,
            children |-> << Child("", "SUPPLIER_PID", << <<"P", "1">> >>) >> \o price
                         \o << Child("", "DESCRIPTION_SHORT", << <<"P", "i", "n">> >>) >>] :
            price \in PriceChildren }
    \cup { [tag |-> <<"ARTICLE">>,
            children |-> << Child("", "SUPPLIER_PID", << <<"T", "1">> >>),
                            Child("", "DESCRIPTION_SHORT", << <<"T", "a", "p">> >>) >> \o tax] :
            tax \in TaxChildren }
    \cup { [tag |-> <<"CATALOG_GROUP">>,
            children |-> << Child("", "SUPPLIER_PID", << <<"G">> >>),
                            Child("", "DESCRIPTION_SHORT", << <<"g">> >>) >>] }

InitExtract ==
    /\ NoImport
    /\ settings = ImportSettings
    /\ currency_id = None
    /\ tax_cache = [k \in {} |-> ""]
    /\ document \in UNION { [1..n -> Elements] : n \in 0..MaxElements }
    /\ epos = 1
    /\ emitted = <<>>
    /\ fn = [op |-> "iter_bmecat_products", source |-> document, delivered |-> 0]

\* _cleanup_element(elem) on the element at index i of the live tree:
\* elem.clear(), then every previous sibling is deleted from the parent.
CleanupElement(tree, i) ==
    << [tree[i] EXCEPT !.children = <<>>] >> \o SubSeq(tree, i + 1, Len(tree))

\* One turn of the loop of iter_bmecat_products: the end event of the next
\* element; an item is parsed, yielded when it gives a product, and released.
IterBmecatProducts ==
    /\ fn.op = "iter_bmecat_products"
    /\ epos <= Len(document)
    /\ LET elem == document[epos]
       IN  IF StripNs(elem.tag) = <<"ARTICLE">>
           THEN /\ emitted' = emitted \o ParseArticle(elem, Mapping)
                /\ document' = CleanupElement(document, epos)
                /\ epos' = 2
           ELSE /\ epos' = epos + 1
                /\ UNCHANGED << emitted, document >>
    /\ fn' = [fn EXCEPT !.delivered = @ + 1]
    /\ UNCHANGED importVars

NextExtract == IterBmecatProducts

SpecExtract == InitExtract /\ [][NextExtract]_vars

-----------------------------------------------------------------------------
(* Properties of _send_batch (SpecBatch) *)

\* _send_batch has returned to its caller.
SendBatchReturned == fn.op = "_send_batch" /\ stack = <<>> /\ outcome = "running"

\* The positions of the group handed to _send_batch that hold a bad item.
BadPositions == { i \in 1..Len(fn.batch) : fn.batch[i].productNumber \in remote.bad }

\* How often item p occurs in a sequence of items.
Occurrences(items, p) == Cardinality({ i \in 1..Len(items) : items[i] = p })

\* How often item p was part of an accepted product upsert call.
RECURSIVE AcceptedFrom(_, _)
AcceptedFrom(p, k) ==
    IF k > Len(calls) THEN 0
    ELSE (IF calls[k].entity = "product" /\ calls[k].answer = "ok"
          THEN Occurrences(calls[k].payload, p) ELSE 0)
         + AcceptedFrom(p, k + 1)

Accepted(p) == AcceptedFrom(p, 1)

\* How many lines of the error log are about item p.
Logged(p) == Cardinality({ i \in 1..Len(error_log) : error_log[i].item = p })

\* C1: when the remote rejects exactly the calls that hold the item at one
\* position of the group (whatever the group's size and the position), then
\* once _send_batch has returned the error count has grown by exactly 1 and
\* the uploaded count by the group's size minus 1.
C1_SingleFailureBisection ==
    (SendBatchReturned /\ ~remote.flaky /\ Cardinality(BadPositions) = 1)
        => /\ stats.errors = 1
           /\ stats.products_uploaded = Len(fn.batch) - 1

\* A group of five whose third item alone is bad has been bisected to the end.
C1_Witness ==
    /\ SendBatchReturned /\ ~remote.flaky
    /\ Len(fn.batch) = 5
    /\ BadPositions = { 3 }
    /\ Len(calls) > 3

\* C2: for any set of bad items, when the remote rejects exactly the calls
\* holding a bad item, then once _send_batch has returned every item that is
\* not bad was part of one accepted call and is counted as uploaded, every bad
\* item is counted as an error once and has one line (item and failure reason)
\* in the error log, and no exception has left _send_batch.
C2_FailureIsolation ==
    (fn.op = "_send_batch" /\ ~remote.flaky)
        => /\ outcome = "running"
           /\ stack = <<>> =>
                /\ stats.products_uploaded = Len(fn.batch) - Cardinality(BadPositions)
                /\ stats.errors = Cardinality(BadPositions)
                /\ Len(error_log) = Cardinality(BadPositions)
                /\ \A i \in 1..Len(error_log) : error_log[i].reason \in CallFailures
                /\ \A i \in 1..Len(fn.batch) :
                     LET p == fn.batch[i]
                     IN  IF i \in BadPositions
                         THEN /\ Logged(p) = Occurrences(fn.batch, p)
                              /\ Accepted(p) = 0
                         ELSE /\ Logged(p) = 0
                              /\ Accepted(p) = Occurrences(fn.batch, p)

\* Two bad items among four, one of them twice in the group, all isolated.
C2_Witness ==
    /\ SendBatchReturned /\ ~remote.flaky
    /\ Len(fn.batch) = 4
    /\ Cardinality(BadPositions) = 3
    /\ Cardinality(remote.bad) = 2
    /\ stats.errors = 3

-----------------------------------------------------------------------------
(* Properties of an import run (Spec) *)

\* Indexes of the product upsert requests in the history.
ProductCalls == { k \in 1..Len(calls) : calls[k].entity = "product" }

\* The manufacturer upsert requests accepted before request k.
AcceptedManufacturerCallsBefore(k) ==
    { j \in 1..(k - 1) : calls[j].entity = "product_manufacturer" /\ calls[j].answer = "ok" }

\* C3: whenever a product upsert request is sent, every distinct non-empty
\* manufacturer name of the whole record store has been part of a manufacturer
\* upsert request that was accepted earlier in the run, and every non-null
\* manufacturerId in the request is the id of a manufacturer so upserted.
C3_ManufacturersBeforeProducts ==
    \A k \in ProductCalls :
        /\ \A r \in 1..Len(store) :
             (store[r].manufacturer # None /\ store[r].manufacturer # "")
                => \E j \in AcceptedManufacturerCallsBefore(k) :
                     \E m \in 1..Len(calls[j].payload) :
                        calls[j].payload[m].name = store[r].manufacturer
        /\ \A i \in 1..Len(calls[k].payload) :
             calls[k].payload[i].manufacturerId # <<>>
                => /\ \E j \in AcceptedManufacturerCallsBefore(k) :
                        \E m \in 1..Len(calls[j].payload) :
                           calls[j].payload[m].id = calls[k].payload[i].manufacturerId
                   /\ calls[k].payload[i].manufacturerId \in DOMAIN remote.manufacturers

\* A product with a manufacturer is sent while another manufacturer name occurs
\* only in a record that is rejected.
C3_Witness ==
    /\ \E k \in ProductCalls : calls[k].payload[1].manufacturerId # <<>>
    /\ \E r \in 1..Len(store) : store[r].manufacturer = "Acme"
    /\ Cardinality(DOMAIN remote.manufacturers) = 2

\* A record without a product number, a name or a parseable net price.
LacksRequiredField(product) ==
    \/ product.productNumber \in { None, "" }
    \/ product.name \in { None, "" }
    \/ product.price.net.t = "null"
    \/ (product.price.net.t = "str" /\ ParseMoney(product.price.net.s) = <<>>)

\* The record loop is about to process a record that lacks a required field.
AtRejectedRecord == pc = "loop" /\ pos <= Len(store) /\ LacksRequiredField(store[pos])

\* What processing a rejected record does, the reason logged being `reason'.
RejectionStep(reason) ==
    AtRejectedRecord =>
        /\ stats'.errors = stats.errors + 1
        /\ stats'.products_uploaded = stats.products_uploaded
        /\ error_log' = Append(error_log, [item |-> store[pos], reason |-> reason])
        /\ calls' = calls /\ batch' = batch /\ stack' = stack
        /\ pc' = "loop" /\ pos' = pos + 1 /\ outcome' = "running"

\* No payload of a rejected record is ever part of an upsert request.
RejectedNeverSent ==
    \A k \in ProductCalls : \A i \in 1..Len(calls[k].payload) :
        \E r \in 1..Len(store) :
            /\ ~LacksRequiredField(store[r])
            /\ store[r].productNumber = calls[k].payload[i].productNumber
            /\ store[r].name = calls[k].payload[i].name

\* C4 as stated: a record that lacks a product number, a name or a parseable
\* net price adds exactly 1 to the error count and exactly one line, the record
\* with the reason "missing required fields", to the error log, is never part
\* of an upsert request, and the loop goes on with the next record.
C4_AsStated == [][RejectionStep("missing required fields")]_vars /\ []RejectedNeverSent

\* C4 amended: the same, the reason logged being "missing_required_fields".
C4_RecordRejection == [][RejectionStep("missing_required_fields")]_vars /\ []RejectedNeverSent

\* Two rejected records have been logged and the run went on to upload and return.
C4_Witness ==
    /\ pc = "done"
    /\ stats.errors = 2 /\ Len(error_log) = 2
    /\ error_log[1].reason = "missing_required_fields"
    /\ error_log[1].item.productNumber = None
    /\ error_log[2].reason = "missing_required_fields"
    /\ stats.products_uploaded = 1

\* The record loop is about to process a record that has its required fields
\* and whose normalized tax rate is not in the loaded tax table.
AtUnmappedTaxRecord ==
    /\ pc = "loop" /\ pos <= Len(store)
    /\ ~LacksRequiredField(store[pos])
    /\ ResolveTaxRate(store[pos].tax_rate, settings) \notin DOMAIN tax_cache

\* C5: a record with product number, name and parseable net price whose
\* normalized tax rate is not in the tax table aborts the run with an error: it
\* is not counted as an error nor logged, no record is processed and no request
\* is sent afterwards, and no statistics are returned.
C5_UnmappedTaxIsFatal ==
    [][ /\ AtUnmappedTaxRecord =>
            /\ pc' = "aborted" /\ outcome' = "ValueError"
            /\ stats'.errors = stats.errors /\ error_log' = error_log
            /\ calls' = calls /\ pos' = pos
        /\ pc = "aborted" =>
            /\ pc' = "aborted" /\ outcome' = outcome
            /\ calls' = calls /\ pos' = pos /\ stats' = stats /\ error_log' = error_log
      ]_vars

\* The run was aborted by the second record, after the first was sent, with a
\* third record left unprocessed.
C5_Witness ==
    /\ pc = "aborted" /\ outcome = "ValueError"
    /\ pos = 2 /\ Len(store) = 3
    /\ store[2].productNumber = "E5"
    /\ tax_cache # <<>>
    /\ Len(calls) > 1

\* The groups of the top-level product upsert requests, in request order.
RECURSIVE TopLevelFrom(_)
TopLevelFrom(k) ==
    IF k > Len(calls) THEN <<>>
    ELSE (IF calls[k].entity = "product" /\ calls[k].depth = 0
          THEN << calls[k].payload >> ELSE <<>>)
         \o TopLevelFrom(k + 1)

TopLevelGroups == TopLevelFrom(1)

RECURSIVE Concat(_)
Concat(groups) == IF groups = <<>> THEN <<>> ELSE Head(groups) \o Concat(Tail(groups))

\* The records of the store that have their required fields, in store order.
RECURSIVE BuildableFrom(_)
BuildableFrom(r) ==
    IF r > Len(store) THEN <<>>
    ELSE (IF LacksRequiredField(store[r]) THEN <<>> ELSE << store[r] >>) \o BuildableFrom(r + 1)

\* In a run that returned, the top-level groups put end to end are the payloads
\* of the buildable records in store order, and no group is empty.
AllSubmittedInOrder ==
    pc = "done" =>
        LET sent  == Concat(TopLevelGroups)
            built == BuildableFrom(1)
        IN  /\ Len(sent) = Len(built)
            /\ \A i \in 1..Len(sent) :
                 \E half \in { "down", "up" } :
                    sent[i] = BuildProductPayload(built[i], settings, currency_id, tax_cache, half).payload
            /\ \A g \in 1..Len(TopLevelGroups) : Len(TopLevelGroups[g]) >= 1

\* C9 as stated: in a run that completes every top-level group carries at least
\* 1 and at most batch_size payloads, and the groups put end to end are the
\* built payloads in record-store order.
C9_AsStated ==
    /\ AllSubmittedInOrder
    /\ pc = "done" => \A g \in 1..Len(TopLevelGroups) : Len(TopLevelGroups[g]) <= batch_size

\* C9 amended: at most max(batch_size, 1) payloads (with batch_size 0 every
\* payload is sent as a group of one).
C9_Batching ==
    /\ AllSubmittedInOrder
    /\ pc = "done" => \A g \in 1..Len(TopLevelGroups) :
                         Len(TopLevelGroups[g]) <= (IF batch_size >= 1 THEN batch_size ELSE 1)

\* Three payloads went out as a full group of two and a final group of one.
C9_Witness ==
    /\ pc = "done" /\ batch_size = 2
    /\ Len(TopLevelGroups) = 2
    /\ Len(TopLevelGroups[1]) = 2 /\ Len(TopLevelGroups[2]) = 1

-----------------------------------------------------------------------------
(* Properties of entity ids and of a repeated run (SpecRerun) *)

\* The payloads of the product upsert requests of the current run.
SentPayloads ==
    UNION { { calls[k].payload[i] : i \in 1..Len(calls[k].payload) } : k \in ProductCalls }

\* C6: the id of a product payload is decided by the product number alone
\* (same number, same id; other number, other id), no product id is a
\* manufacturer id, the remote holds one product entity per product number
\* under that id, and once a later run over the same store has returned the
\* remote holds the same product and manufacturer entities as after the first.
C6_IdempotentRerun ==
    /\ \A p \in SentPayloads, q \in SentPayloads :
         (p.productNumber = q.productNumber) <=> (p.id = q.id)
    /\ \A id \in DOMAIN remote.products :
         /\ remote.products[id].id = id
         /\ \A other \in DOMAIN remote.products :
              remote.products[other].productNumber = remote.products[id].productNumber
                 => other = id
    /\ DOMAIN remote.products \cap DOMAIN remote.manufacturers = {}
    /\ (fn.op = "rerun" /\ run > 1 /\ pc = "done")
          => /\ remote.products = fn.first.products
             /\ remote.manufacturers = fn.first.manufacturers

\* The second run has returned and uploaded both records again; the remote
\* holds one product for the two records that share a product number.
C6_Witness ==
    /\ fn.op = "rerun" /\ run = 2 /\ pc = "done"
    /\ Len(store) = 2 /\ store[1].productNumber = store[2].productNumber
    /\ store[1].name # store[2].name
    /\ Cardinality(DOMAIN remote.products) = 1
    /\ Cardinality(DOMAIN remote.manufacturers) = 2
    /\ stats.products_uploaded = 2

-----------------------------------------------------------------------------
(* Properties of calculate_gross and _build_product_payload (SpecPayload) *)

\* g cents is x = num / 100000 cents rounded to 2 decimals: no cent amount is
\* nearer to x.
IsRounded(g, num) == 2 * g * 100000 - 2 * num <= 100000 /\ 2 * num - 2 * g * 100000 <= 100000

\* C8: calculate_gross(net, rate) is net * (1 + rate/100) for a rate above 1 and
\* net * (1 + rate) for a rate of at most 1, rounded to 2 decimals;
\* calculate_gross(10.0, 0.19) is 11.9 and calculate_gross(9.99, 0.19) is
\* 11.89; a fraction r with 0.01 < r <= 1 and the percentage 100 * r give the
\* same gross.
C8_CalculateGross ==
    (fn.op = "calculate_gross" /\ fn.done)
        => /\ fn.tax_rate > 1000 => IsRounded(fn.result, fn.net * 100000 + fn.net * fn.tax_rate)
           /\ fn.tax_rate <= 1000 => IsRounded(fn.result, fn.net * 100000 + fn.net * fn.tax_rate * 100)
           /\ (fn.net = 1000 /\ fn.tax_rate = 190) => fn.result = 1190
           /\ (fn.net = 999 /\ fn.tax_rate = 190) => fn.result = 1189
           /\ fn.done_percent => fn.result_percent = fn.result

\* 0.50 at the fraction 0.19 and at 19 percent: 0.595 exactly, rounded the same
\* way both times.
C8_Witness ==
    /\ fn.op = "calculate_gross" /\ fn.done /\ fn.done_percent
    /\ fn.net = 50 /\ fn.tax_rate = 190
    /\ fn.result \in { 59, 60 }

\* C7 as stated: a built payload has exactly one price entry, whose gross is
\* net * (1 + p/100) rounded to 2 decimals, p being the normalized percentage
\* rate of the record, the rate that selected the payload's taxId; also for
\* p <= 1 percent.
C7_GrossFromNormalizedRate ==
    (fn.op = "_build_product_payload" /\ fn.done /\ fn.result.kind = "payload")
        => LET p     == ResolveTaxRate(fn.product.tax_rate, settings)
               price == fn.result.payload.price
           IN  /\ Len(price) = 1
               /\ fn.result.payload.taxId = tax_cache[p]
               /\ IsRounded(price[1].gross, price[1].net * 100000 + price[1].net * p)

-----------------------------------------------------------------------------
(* Properties of the extractor (SpecExtract) *)

\* t is `text' without its leading and trailing whitespace.
IsTrimOf(t, text) ==
    /\ t = <<>> \/ (t[1] \notin Whitespace /\ t[Len(t)] \notin Whitespace)
    /\ \E a \in 0..Len(text), b \in 0..Len(text) :
         /\ a + b <= Len(text)
         /\ \A i \in 1..a : text[i] \in Whitespace
         /\ \A i \in (Len(text) - b + 1)..Len(text) : text[i] \in Whitespace
         /\ t = SubSeq(text, a + 1, Len(text) - b)

\* The descendants of a source element that carry the local name `tag'.
Tagged(elem, tag) == SelectSeq(elem.children, LAMBDA c : c.name = tag)

\* The field `tag' of a source element is present and not empty after trimming:
\* its first element of that name has a text with a character that is no
\* whitespace.
HasField(elem, tag) ==
    /\ Tagged(elem, tag) # <<>>
    /\ Tagged(elem, tag)[1].text # <<>>
    /\ \E i \in 1..Len(Tagged(elem, tag)[1].text[1]) : Tagged(elem, tag)[1].text[1][i] \notin Whitespace

\* A source element is an item: its local name is ARTICLE.
IsItem(elem) == elem.tag[Len(elem.tag)] = "ARTICLE"

\* The items with both required fields among the first n source elements.
RECURSIVE CompleteItems(_)
CompleteItems(n) ==
    IF n = 0 THEN <<>>
    ELSE CompleteItems(n - 1)
         \o (IF /\ IsItem(fn.source[n])
                /\ HasField(fn.source[n], "SUPPLIER_PID")
                /\ HasField(fn.source[n], "DESCRIPTION_SHORT")
             THEN << fn.source[n] >> ELSE <<>>)

\* C10: after any number of delivered elements the extracted sequence holds, in
\* document order, exactly one record for each item whose product-number tag
\* and name tag are both present and not empty after trimming, with
\* productNumber and name the trimmed texts, and none for any other item; an
\* item that is dropped does not stop the later ones.
C10_ExtractionEmitsCompleteItems ==
    fn.op = "iter_bmecat_products"
        => LET items == CompleteItems(fn.delivered)
           IN  /\ Len(emitted) = Len(items)
               /\ \A i \in 1..Len(items) :
                    /\ IsTrimOf(emitted[i].productNumber, Tagged(items[i], "SUPPLIER_PID")[1].text[1])
                    /\ IsTrimOf(emitted[i].name, Tagged(items[i], "DESCRIPTION_SHORT")[1].text[1])
                    /\ emitted[i].productNumber # <<>> /\ emitted[i].name # <<>>

\* An item without a name was dropped and the item after it, in a namespace,
\* was extracted with its texts trimmed.
C10_Witness ==
    /\ fn.op = "iter_bmecat_products" /\ fn.delivered = 2
    /\ IsItem(fn.source[1]) /\ ~HasField(fn.source[1], "DESCRIPTION_SHORT")
    /\ HasField(fn.source[1], "SUPPLIER_PID")
    /\ Len(emitted) = 1
    /\ emitted[1].productNumber = <<"A", "1">> /\ emitted[1].name = <<"N", "u", "t">>


\* The ARTICLE_PRICE elements of a source element whose price_type attribute
\* is the configured one.
SelectedPrices(elem) ==
    SelectSeq(Tagged(elem, "ARTICLE_PRICE"), LAMBDA p : p.price_type = Mapping.price_selector.price_type)

\* The selected price element of a source element declares a currency: it has
\* a PRICE_CURRENCY whose text is not blank.
DeclaresCurrency(elem) ==
    /\ SelectedPrices(elem) # <<>>
    /\ HasField(SelectedPrices(elem)[1], "PRICE_CURRENCY")

\* C11: every emitted record has a price.currency: the trimmed currency of the
\* selected price element when that element declares one, and the configured
\* default currency when it declares none or when no price element has the
\* configured price type.
C11_DefaultCurrencyFallback ==
    fn.op = "iter_bmecat_products"
        => LET items == CompleteItems(fn.delivered)
           IN  \A i \in 1..Len(emitted) :
                 /\ emitted[i].price.currency # <<>>
                 /\ IF DeclaresCurrency(items[i])
                    THEN IsTrimOf(emitted[i].price.currency[1],
                                  Tagged(SelectedPrices(items[i])[1], "PRICE_CURRENCY")[1].text[1])
                    ELSE emitted[i].price.currency = Mapping.price_selector.currency

\* The candidate tag of a source element parses: it is present, not blank, and
\* its trimmed text is a number.
TaxParses(elem, tag) ==
    /\ HasField(elem, tag)
    /\ FloatOfTax(Strip(Tagged(elem, tag)[1].text[1])) # <<>>

\* The positions in TaxTags of the candidates of a source element that parse.
ParsingCandidates(elem) == { k \in 1..Len(TaxTags) : TaxParses(elem, TaxTags[k]) }

\* C21: the tax rate of every emitted record is the number of the first tag in
\* the order TAX, TAX_RATE, TAX_RATE_PERCENT whose text parses as a number; a
\* candidate that is present and no number is passed over; the tax rate is
\* absent only when no candidate parses.
C21_FirstParsableTax ==
    fn.op = "iter_bmecat_products"
        => LET items == CompleteItems(fn.delivered)
           IN  \A i \in 1..Len(emitted) :
                 LET parsing == ParsingCandidates(items[i])
                 IN  IF parsing = {} THEN emitted[i].tax_rate = <<>>
                     ELSE LET first == CHOOSE k \in parsing : \A j \in parsing : k <= j
                          IN  emitted[i].tax_rate
                                = FloatOfTax(Strip(Tagged(items[i], TaxTags[first])[1].text[1]))

-----------------------------------------------------------------------------
(* Properties of _resolve_tax_rate (SpecPayload) *)

\* The resolver has returned for a raw rate that is a number.
ResolvedNumber ==
    /\ fn.op = "_resolve_tax_rate" /\ fn.done
    /\ FloatOfRate(fn.raw_rate) # <<>>

\* The three override keys of the resolved raw rate, in priority order: the
\* original raw string, the raw numeric value, the normalized percentage.
OverrideKeys ==
    LET rate == FloatOfRate(fn.raw_rate)[1]
    IN  << RawStr(fn.raw_rate), FloatStr(rate), FloatStr(IF rate <= One THEN 100 * rate ELSE rate) >>

\* The override keys that the mapping holds.
PresentKeys == { i \in 1..3 : OverrideKeys[i] \in DOMAIN settings.tax.mapping }

\* C12: the result is the override stored under the first of the three keys
\* that is present in the mapping, whatever its value (an override to 0
\* percent included).
C12_OverridePriority ==
    (ResolvedNumber /\ PresentKeys # {})
        => fn.result = settings.tax.mapping[OverrideKeys[CHOOSE i \in PresentKeys : \A j \in PresentKeys : i <= j]]

\* C13: with none of the override keys in the mapping a raw rate r resolves to
\* 100 x r when r <= 1 and to r when r > 1, so that 0.19 and 19 both give 19;
\* an absent rate and one that is no number resolve to the default rate.
C13_DefaultNormalization ==
    (fn.op = "_resolve_tax_rate" /\ fn.done)
        => /\ FloatOfRate(fn.raw_rate) = <<>> => fn.result = settings.tax.default_rate
           /\ (FloatOfRate(fn.raw_rate) # <<>> /\ PresentKeys = {})
                => LET r == FloatOfRate(fn.raw_rate)[1]
                   IN  /\ r <= One => fn.result = 100 * r
                       /\ r > One => fn.result = r
                       /\ r \in { 190, 19000 } => fn.result = 19000

\* The rate 1.0 was resolved to 100 percent with no override in the way.
C13_Witness ==
    /\ ResolvedNumber /\ PresentKeys = {}
    /\ fn.raw_rate = JNum(1000) /\ fn.result = 100000

-----------------------------------------------------------------------------
(* Properties of the media side channel (SpecSteady) *)

\* The media entries due for the first n records of the store: one for each
\* record with media, those of rejected records counted only if `rejected'.
RECURSIVE MediaEntriesFor(_, _)
MediaEntriesFor(n, rejected) ==
    IF n = 0 THEN <<>>
    ELSE MediaEntriesFor(n - 1, rejected)
         \o (IF store[n].media # <<>> /\ (rejected \/ ~LacksRequiredField(store[n]))
             THEN << [productNumber |-> store[n].productNumber, media |-> store[n].media] >>
             ELSE <<>>)

\* The records the loop has gone past.
Passed == pos - 1

\* C14 as stated: the media queue holds, in record order, exactly one entry
\* (product number, media list) for every processed record with a non-empty
\* media list, and none for a record without media.
C14_AsStated == media_queue = MediaEntriesFor(Passed, TRUE)

\* C14 amended: the same for the processed records for which a payload was
\* built; a record rejected for a missing required field leaves no entry.
C14_MediaQueue == media_queue = MediaEntriesFor(Passed, FALSE)

\* A run returned after two records with media were queued in record order,
\* around a rejected record with media, which was not queued.
C14_Witness ==
    /\ pc = "done" /\ Len(store) = 3
    /\ store[2].media # <<>> /\ LacksRequiredField(store[2])
    /\ Len(media_queue) = 2
    /\ media_queue[1].productNumber = "C3" /\ media_queue[2].productNumber = "B2"
    /\ "B2" \in remote.bad /\ stats.errors = 2

-----------------------------------------------------------------------------
(* Properties of the credentials (SpecSteady) *)

\* Neither a token nor a complete pair of client credentials is configured.
NoCredentials ==
    /\ settings.shopware.token \in { None, "" }
    /\ \/ settings.shopware.client_id \in { None, "" }
       \/ settings.shopware.client_secret \in { None, "" }

\* The requests sent to the token endpoint.
TokenCalls == { k \in 1..Len(calls) : calls[k].entity = "oauth_token" }

\* The run has gone past its first step.
PastFirstStep == pc # "get_currency_id" \/ calls # <<>>

\* C15: without a token and without a complete pair of client credentials the
\* run aborts at its first step, with no request sent and no record counted as
\* processed; with a token configured the token endpoint is never called; with
\* only client credentials configured it is called exactly once per run, before
\* every other request.
C15_CredentialsChecked ==
    /\ [](NoCredentials =>
            /\ calls = <<>> /\ stats.products_processed = 0
            /\ pc \in { "get_currency_id", "aborted" }
            /\ pc = "aborted" => outcome = "ValueError")
    /\ [][(NoCredentials /\ pc = "get_currency_id") => pc' = "aborted"]_vars
    /\ [](settings.shopware.token \notin { None, "" } => TokenCalls = {})
    /\ []((settings.shopware.token \in { None, "" } /\ ~NoCredentials) =>
            /\ TokenCalls \subseteq { 1 }
            /\ PastFirstStep => TokenCalls = { 1 })

\* A run with a client id and no secret was aborted with records in the store
\* and nothing sent.
C15_Witness ==
    /\ NoCredentials /\ settings.shopware.client_id = "id"
    /\ pc = "aborted" /\ outcome = "ValueError"
    /\ Len(store) = 2 /\ calls = <<>>

-----------------------------------------------------------------------------
(* Properties of the manufacturer upserts and of the order of the requests   *)
(* (Spec)                                                                    *)

\* The manufacturer upsert calls that failed.
FailedManufacturerCalls ==
    { k \in 1..Len(calls) : calls[k].entity = "product_manufacturer" /\ calls[k].answer # "ok" }

\* C16: a manufacturer upsert call that fails, in whatever way, is the last
\* request of the run: the run is aborted with that failure, the group is not
\* sent again whole or in parts, nothing is counted or logged as an error, no
\* record is processed and no product upsert is issued.
C16_ManufacturerFailurePropagates ==
    \A k \in FailedManufacturerCalls :
        /\ k = Len(calls)
        /\ pc = "aborted" /\ outcome = calls[k].answer
        /\ stats = NewStats /\ error_log = <<>> /\ media_queue = <<>>
        /\ pos = 1 /\ batch = <<>>
        /\ ProductCalls = {}

\* The manufacturer upsert was refused with a list of errors before a store of
\* three records, two of them good, was read.
C16_Witness ==
    /\ FailedManufacturerCalls # {} /\ outcome = "SyncError"
    /\ Len(store) = 3
    /\ store[1].productNumber = "A1" /\ store[2].productNumber = "B2"


\* The place of a request in the order of a run.
Rank(entity) ==
    CASE entity = "oauth_token"          -> 0
      [] entity = "currency"             -> 1
      [] entity = "tax"                  -> 2
      [] entity = "product_manufacturer" -> 3
      [] entity = "product"              -> 4

\* The requests for `entity'.
CallsFor(entity) == { k \in 1..Len(calls) : calls[k].entity = entity }

\* C17: the requests of a run come in the order currency lookup, tax-table
\* load, manufacturer upserts, product upserts: one currency lookup first, one
\* tax-table load after it has found the currency, upserts only after the tax
\* table was loaded, no manufacturer upsert after a product upsert; statistics
\* are returned only after both lookups succeeded and no request follows; a
\* currency unknown to the remote aborts the run with the lookup as its only
\* request.
C17_LinearOrder ==
    /\ [](/\ \A j, k \in 1..Len(calls) : j < k => Rank(calls[j].entity) <= Rank(calls[k].entity)
          /\ Cardinality(CallsFor("currency")) <= 1 /\ Cardinality(CallsFor("tax")) <= 1
          /\ calls # <<>> => calls[1].entity = "currency"
          /\ Len(calls) > 1 => (calls[1].answer = "found" /\ calls[2].entity = "tax")
          /\ Len(calls) > 2 => calls[2].answer = "ok"
          /\ pc = "done" => (outcome = "returned" /\ Len(calls) >= 2 /\ calls[2].answer = "ok")
          /\ outcome = "returned" => pc = "done"
          /\ (calls # <<>> /\ calls[1].answer = "empty")
                => (Len(calls) = 1 /\ pc = "aborted" /\ outcome = "ValueError"))
    /\ [][(pc = "done" \/ pc = "aborted") => (calls' = calls /\ pc' = pc)]_vars

\* Statistics were returned after all four kinds of request were made.
C17_Witness ==
    /\ pc = "done" /\ Len(calls) = 5
    /\ calls[3].entity = "product_manufacturer" /\ calls[4].entity = "product"
    /\ calls[5].entity = "product" /\ stats.products_uploaded = 2

-----------------------------------------------------------------------------
(* Properties of the client's caches (SpecClient) *)

\* The tax searches that were answered.
TaxSearches == { k \in 1..Len(calls) : calls[k].entity = "tax" /\ calls[k].answer = "ok" }

\* The currency searches that found the currency.
CurrencySearchesFound == { k \in 1..Len(calls) : calls[k].entity = "currency" /\ calls[k].answer = "found" }

\* C18: in one client lifetime at most one currency search is sent per ISO code
\* that was resolved, at most one tax search is sent in total, also when the
\* remote's tax table is empty, and a cached value never changes.
C18_NoRefetch ==
    /\ [](fn.op = "client" =>
            /\ Cardinality(CurrencySearchesFound) <= Cardinality(DOMAIN client.currency_cache)
            /\ Cardinality(TaxSearches) <= 1)
    /\ [][fn.op = "client" =>
            /\ \A iso \in DOMAIN client.currency_cache :
                 iso \in DOMAIN client'.currency_cache
                    /\ client'.currency_cache[iso] = client.currency_cache[iso]
            /\ \A rate \in DOMAIN tax_cache :
                 rate \in DOMAIN tax_cache' /\ tax_cache'[rate] = tax_cache[rate]
         ]_vars

-----------------------------------------------------------------------------
(* Properties of _send_batch under every kind of failure (SpecBatch) *)

\* What a product upsert call raises when the remote lists errors, when the
\* status is >= 400, and when the transport fails or times out.
FailuresByCause ==
    { RaisedBy(response) :
        response \in { r \in Responses : r.body = "errors" \/ r.status >= 400 \/ r.status = 0 } }

\* This step sends a product upsert that fails in one of those ways.
FailedSend ==
    /\ Len(calls') = Len(calls) + 1
    /\ calls'[Len(calls')].entity = "product"
    /\ calls'[Len(calls')].answer \in FailuresByCause

\* C19: a product upsert call that fails because the remote listed errors,
\* because the status was >= 400 or because the transport failed or timed out
\* is handled in one way: a singleton is counted and logged as one error, a
\* larger group is split in two halves that are sent next; the run is never
\* aborted by it, and when _send_batch has returned every item of the group was
\* uploaded or counted as an error.
C19_FailuresHandledAlike ==
    /\ [][FailedSend =>
            LET sent == calls'[Len(calls')].payload
            IN  /\ pc' # "aborted" /\ outcome' = "running"
                /\ stats'.products_uploaded = stats.products_uploaded
                /\ IF Len(sent) = 1
                   THEN /\ stats'.errors = stats.errors + 1
                        /\ error_log' = Append(error_log, [item |-> sent[1],
                                                           reason |-> calls'[Len(calls')].answer])
                        /\ stack' = Tail(stack)
                   ELSE /\ stats' = stats /\ error_log' = error_log
                        /\ Len(stack') = Len(stack) + 1
                        /\ stack'[1].group \o stack'[2].group = sent
         ]_vars
    /\ [](SendBatchReturned => stats.products_uploaded + stats.errors = Len(fn.batch))


\* ceil(log2 n) for n >= 1.
CeilLog2(n) == CHOOSE d \in 0..n : 2^d >= n /\ (d = 0 \/ 2^(d - 1) < n)

\* How many calls sent the single payload p as a group of its own.
SingletonCalls(p) == Cardinality({ k \in 1..Len(calls) : calls[k].payload = << p >> })

\* C20: for a group of n >= 1 payloads and any pattern of failures, every one
\* failing included, _send_batch comes to an end (it returns, or a failure it
\* does not catch leaves it); no call has an empty group, no call is made deeper
\* than ceil(log2 n) levels of recursion, at most 2n - 1 calls are made, and no
\* item is sent as a group of its own more often than it is in the group.
C20_BisectionBounded ==
    /\ [](fn.op = "_send_batch" =>
            LET n == Len(fn.batch)
            IN  /\ \A k \in 1..Len(calls) :
                     /\ calls[k].payload # <<>>
                     /\ calls[k].depth <= CeilLog2(n)
                /\ \A i \in 1..Len(stack) : stack[i].group # <<>>
                /\ Len(calls) <= 2 * n - 1
                /\ \A i \in 1..n : SingletonCalls(fn.batch[i]) <= Occurrences(fn.batch, fn.batch[i]))
    /\ <>(fn.op = "_send_batch" /\ (stack = <<>> \/ pc = "aborted"))

\* A group of five was bisected to the end with every call failing: nine calls,
\* the deepest at level three.
C20_Witness ==
    /\ SendBatchReturned /\ Len(fn.batch) = 5
    /\ Len(calls) = 9 /\ stats.errors = 5
    /\ \E k \in 1..Len(calls) : calls[k].depth = 3

-----------------------------------------------------------------------------
(* Properties of the statistics of an import run (Spec) *)

\* Between two records of the loop: no _send_batch is running.
AtRecordBoundary == pc = "loop"

\* C22: at every boundary between two records products_processed =
\* products_uploaded + errors + the number of payloads in the pending batch; no
\* counter ever decreases; and when the run returns its statistics
\* products_processed = products_uploaded + errors = the number of records in
\* the store.
C22_CounterConservation ==
    /\ [](AtRecordBoundary
            => stats.products_processed = stats.products_uploaded + stats.errors + Len(batch))
    /\ [][/\ stats'.products_processed >= stats.products_processed
          /\ stats'.products_uploaded >= stats.products_uploaded
          /\ stats'.errors >= stats.errors]_vars
    /\ [](outcome = "returned"
            => /\ stats.products_processed = stats.products_uploaded + stats.errors
               /\ stats.products_processed = Len(store))

\* A run over three records returned: a group of two was accepted in one call
\* and one record was rejected.
C22_Witness ==
    /\ outcome = "returned" /\ Len(store) = 3
    /\ stats = [products_processed |-> 3, products_uploaded |-> 2, errors |-> 1]
    /\ \E k \in 1..Len(calls) :
         calls[k].entity = "product" /\ calls[k].answer = "ok" /\ Len(calls[k].payload) = 2

\* The product numbers of the records of the store.
StoreNumbers == { store[r].productNumber : r \in 1..Len(store) }

\* How many payloads with product number n were built: the records before the
\* loop's position that have their required fields.
BuiltFor(n) ==
    Cardinality({ r \in 1..(pos - 1) : store[r].productNumber = n /\ ~LacksRequiredField(store[r]) })

\* How often a payload with product number n was part of an accepted product
\* upsert call.
RECURSIVE AcceptedForFrom(_, _)
AcceptedForFrom(n, k) ==
    IF k > Len(calls) THEN 0
    ELSE (IF calls[k].entity = "product" /\ calls[k].answer = "ok"
          THEN Cardinality({ i \in 1..Len(calls[k].payload) : calls[k].payload[i].productNumber = n })
          ELSE 0)
         + AcceptedForFrom(n, k + 1)

AcceptedFor(n) == AcceptedForFrom(n, 1)

\* The lines of the error file that are about a payload (an item with an id),
\* not about a rejected record.
PayloadLines == { i \in 1..Len(error_log) : "id" \in DOMAIN error_log[i].item }

LoggedFor(n) == Cardinality({ i \in PayloadLines : error_log[i].item.productNumber = n })

RECURSIVE SumOver(_, _)
SumOver(f, S) ==
    IF S = {} THEN 0
    ELSE LET x == CHOOSE x \in S : TRUE IN f[x] + SumOver(f, S \ { x })

\* In every state no payload is accounted for twice, the counters are the
\* numbers of accounted payloads, and the error file has one line per counted
\* error.
AccountedAtMostOnce ==
    /\ \A n \in StoreNumbers : AcceptedFor(n) + LoggedFor(n) <= BuiltFor(n)
    /\ stats.products_uploaded = SumOver([n \in StoreNumbers |-> AcceptedFor(n)], StoreNumbers)
    /\ stats.errors = Len(error_log)
    /\ Cardinality(PayloadLines) = SumOver([n \in StoreNumbers |-> LoggedFor(n)], StoreNumbers)

\* C23: whatever the outcomes of the upsert calls, when the run is over every
\* built payload was part of exactly one accepted call and counted as uploaded,
\* or has exactly one line in the error file and is counted as an error; never
\* both, never twice; and the error file always has as many lines as the
\* errors counter says.
C23_ExactlyOnce ==
    /\ AccountedAtMostOnce
    /\ pc \in { "done", "aborted" }
         => \A n \in StoreNumbers : AcceptedFor(n) + LoggedFor(n) = BuiltFor(n)

-----------------------------------------------------------------------------
(* Properties of the order of the checks of a record (SpecChecked) *)

\* The record loop is about to process a record that lacks a required field
\* and whose normalized tax rate is not in the loaded tax table.
AtRejectedUnmappedRecord ==
    /\ AtRejectedRecord
    /\ ResolveTaxRate(store[pos].tax_rate, settings) \notin DOMAIN tax_cache

\* C24: a record that lacks a product number, a name or a parseable net price
\* is rejected as a per-record error and the loop goes on, also when its tax
\* rate has no entry in the tax table; the abort on an unmapped tax rate is
\* only ever caused by a record that has all its required fields.
C24_RejectionBeforeTaxCheck ==
    [][ /\ AtRejectedUnmappedRecord =>
            /\ pc' = "loop" /\ outcome' = "running" /\ ~closed'
            /\ pos' = pos + 1
            /\ stats'.errors = stats.errors + 1
            /\ error_log' = Append(error_log, [item |-> store[pos], reason |-> "missing_required_fields"])
        /\ (pc = "loop" /\ pc' = "aborted") =>
            /\ outcome' = "ValueError"
            /\ ~LacksRequiredField(store[pos])
            /\ ResolveTaxRate(store[pos].tax_rate, settings) \notin DOMAIN tax_cache
      ]_vars

\* Three records with an unmapped tax rate, without a product number, a name
\* and a price, were rejected one after the other and the run returned.
C24_Witness ==
    /\ pc = "done" /\ outcome = "returned" /\ Len(store) = 3
    /\ tax_cache # <<>>
    /\ store[1].productNumber = None /\ store[2].name = "" /\ store[3].price.net = JStr("n/a")
    /\ \A r \in 1..3 : ResolveTaxRate(store[r].tax_rate, settings) \notin DOMAIN tax_cache
    /\ stats = [products_processed |-> 3, products_uploaded |-> 0, errors |-> 3]
    /\ Len(error_log) = 3

-----------------------------------------------------------------------------
(* Properties of the state a fatal abort leaves behind (SpecChecked) *)

\* The step in which a record with an unmapped tax rate aborts the run leaves
\* the remote's products, the uploaded and error counts, the error file and the
\* pending batch as they were, sends nothing, and closes the client; the
\* pending payloads are the built ones that were in no submitted group, they
\* are counted neither as uploaded nor as errors, and there are at most `most'
\* of them.  After the abort nothing changes any more.
AbortLeaves(most) ==
    /\ AtUnmappedTaxRecord =>
         /\ pc' = "aborted" /\ outcome' = "ValueError"
         /\ remote' = remote /\ calls' = calls
         /\ stats'.products_uploaded = stats.products_uploaded
         /\ stats'.errors = stats.errors /\ error_log' = error_log
         /\ batch' = batch /\ stack' = <<>> /\ stack = <<>>
         /\ closed' /\ ~closed
         /\ Len(Concat(TopLevelGroups)) + Len(batch) = Len(BuildableFrom(1)) - Len(BuildableFrom(pos))
         /\ stats.products_uploaded + Cardinality(PayloadLines) = Len(Concat(TopLevelGroups))
         /\ Len(batch) <= most
    /\ pc = "aborted" =>
         /\ remote' = remote /\ calls' = calls /\ stats' = stats /\ error_log' = error_log
         /\ batch' = batch /\ closed' = closed /\ pc' = pc

\* C25 as stated: at most batch_size - 1 pending payloads are left unsubmitted,
\* and the client is closed as on normal completion.
C25_AsStated ==
    /\ [][AbortLeaves(batch_size - 1)]_vars
    /\ []((pc = "done" \/ pc = "aborted") => closed)

\* C25 amended: at most max(batch_size, 1) - 1 pending payloads (with
\* batch_size 0 every payload is sent at once and none is pending).
C25_AbortLeavesState ==
    /\ [][AbortLeaves((IF batch_size >= 1 THEN batch_size ELSE 1) - 1)]_vars
    /\ []((pc = "done" \/ pc = "aborted") => closed)

\* A run with groups of two was aborted by its fourth record: the group of the
\* first two payloads (the same product twice) is uploaded and counted, the
\* third payload is pending, and the client is closed.
C25_Witness ==
    /\ pc = "aborted" /\ outcome = "ValueError" /\ closed
    /\ Len(store) = 4 /\ pos = 4 /\ batch_size = 2
    /\ Len(batch) = 1
    /\ stats = [products_processed |-> 4, products_uploaded |-> 2, errors |-> 0]
    /\ Cardinality(DOMAIN remote.products) = 1

=============================================================================
